---- MODULE Spec2Model ----
(***************************************************************************)
(* Virtual storage: folder and file coordinators driving a disk tree and   *)
(* a relational catalog (app/services, app/db/crud).                       *)
(*                                                                         *)
(* Strings are sequences of one-character strings; a filesystem path       *)
(* (pathlib.Path) is the sequence of its segments.                         *)
(***************************************************************************)
EXTENDS Integers, Sequences, FiniteSets, TLC

\* ------------------------------------------------------------------ bounds
\* number of requests a behaviour issues
MaxOps == 4
MaxConcOps == 3
\* length of the virtual paths given to the path translation
MaxPathLen == 4

\* ------------------------------------------------------------- input sets
\* Python None, per column type: identifiers, strings, enumerated values
NoneId == 0
NoneStr == << >>
Null == "NULL"
SEP == "/"

Procs == {1, 2}
Names == {<<"a">>, <<"b">>}
Users == {"u1", "u2"}
Published == {"true", "false"}
\* an identifier no row ever has
MissingId == MaxOps + 1

\* ------------------------------------------------------- string functions
RECURSIVE rstrip(_)
rstrip(s) ==
    IF Len(s) > 0 /\ s[Len(s)] = SEP THEN rstrip(SubSeq(s, 1, Len(s) - 1)) ELSE s

RECURSIVE lstrip(_)
lstrip(s) ==
    IF Len(s) > 0 /\ s[1] = SEP THEN lstrip(Tail(s)) ELSE s

strip(s) == lstrip(rstrip(s))

RECURSIVE split(_)
split(s) ==
    IF \A i \in 1..Len(s) : s[i] # SEP
    THEN <<s>>
    ELSE LET i == CHOOSE k \in 1..Len(s) :
                      s[k] = SEP /\ \A j \in 1..(k - 1) : s[j] # SEP
         IN  <<SubSeq(s, 1, i - 1)>> \o split(SubSeq(s, i + 1, Len(s)))

\* s.rsplit("/", 1)[0]
rsplit_head(s) ==
    IF \A i \in 1..Len(s) : s[i] # SEP
    THEN s
    ELSE LET i == CHOOSE k \in 1..Len(s) :
                      s[k] = SEP /\ \A j \in (k + 1)..Len(s) : s[j] # SEP
         IN  SubSeq(s, 1, i - 1)

NonEmpty(seg) == Len(seg) > 0

\* ------------------------------------------------------------ configuration
\* settings.VIRTUAL_BASE_PATH
VIRTUAL_BASE_PATH == <<SEP>>
\* Path(settings.STORAGE_BASE_PATH), the storage root, as path segments
STORAGE_BASE_PATH == << <<"s">> >>

\* FolderService.__init__: base_virtual.rstrip("/") + "/"
base_virtual == rstrip(VIRTUAL_BASE_PATH) \o <<SEP>>

\* ------------------------------------------------------------------ paths
\* str(Path)
RECURSIVE PathStr(_)
PathStr(p) == IF p = <<>> THEN <<>> ELSE <<SEP>> \o Head(p) \o PathStr(Tail(p))

\* pathlib.Path(*parts): a "." component is dropped, ".." is kept
NotCurDir(seg) == seg # <<".">>
Path(parts) == SelectSeq(parts, NotCurDir)

\* Path(str)
PathOf(s) == Path(SelectSeq(split(s), NonEmpty))

\* variant: the empty segments are not discarded
compute_storage_path_KeepEmpty(virtual_path) ==
    Path(STORAGE_BASE_PATH \o split(virtual_path))

\* FolderDiskService.compute_storage_path
compute_storage_path(virtual_path) ==
    Path(STORAGE_BASE_PATH \o SelectSeq(split(strip(virtual_path)), NonEmpty))

IsPrefix(p, q) == Len(p) <= Len(q) /\ SubSeq(q, 1, Len(p)) = p
Prefixes(p) == {SubSeq(p, 1, n) : n \in 1..Len(p)}
PathParent(p) == SubSeq(p, 1, Len(p) - 1)

\* ------------------------------------------------------------------ state
VARIABLES
    folders,    \* catalog table fjc_folder: id -> row
    files,      \* catalog table fjc_file: id -> row
    dirs,       \* directories existing on disk (set of paths)
    dfiles,     \* regular files on disk: path -> content
    nextId,     \* next fresh identifier (uuid4)
    nops,       \* requests issued so far
    proc,       \* per request slot: operation, position, locals, response
    hist,       \* history: "failed" once a request failed, "file" once a
                \* file request was issued, "delete" once a folder delete
    uploaded    \* history: file id -> the bytes its upload sent

vars == <<folders, files, dirs, dfiles, nextId, nops, proc, hist, uploaded>>


\* ------------------------------------------------------------- disk store
DiskExists(D, F, p) == p \in D \/ p \in DOMAIN F

Under(old, S) == {q \in S : IsPrefix(old, q)}
Rebase(old, new, q) == new \o SubSeq(q, Len(old) + 1, Len(q))

\* path.mkdir(parents=True, exist_ok=True)
mkdir_p(D, p) == D \cup Prefixes(p)

\* variant: path.mkdir(parents=True, exist_ok=True)
create_folder_ExistOk(D, F, path) ==
    IF path \in DOMAIN F
    THEN [err |-> "FileExistsError", dirs |-> D, dfiles |-> F]
    ELSE [err |-> "ok", dirs |-> D \cup Prefixes(path), dfiles |-> F]

\* FolderDiskService.create_folder: path.mkdir(parents=True, exist_ok=False)
create_folder(D, F, path) ==
    IF DiskExists(D, F, path)
    THEN [err |-> "FileExistsError", dirs |-> D, dfiles |-> F]
    ELSE [err |-> "ok", dirs |-> D \cup Prefixes(path), dfiles |-> F]

\* shutil.rmtree(path)
rmtree(D, F, path) ==
    [err |-> "ok",
     dirs |-> {q \in D : ~IsPrefix(path, q)},
     dfiles |-> [q \in {r \in DOMAIN F : ~IsPrefix(path, r)} |-> F[q]]]

\* variant: rmtree is called without the existence test
delete_folder_Strict(D, F, path) ==
    IF path \in DOMAIN F
    THEN [err |-> "OSError", dirs |-> D, dfiles |-> F]
    ELSE IF path \in D THEN rmtree(D, F, path)
    ELSE [err |-> "FileNotFoundError", dirs |-> D, dfiles |-> F]

\* FolderDiskService.delete_folder: rmtree if the path exists, else skip
delete_folder(D, F, path) ==
    IF path \in DOMAIN F
    THEN [err |-> "OSError", dirs |-> D, dfiles |-> F]
    ELSE IF path \in D THEN rmtree(D, F, path)
    ELSE [err |-> "ok", dirs |-> D, dfiles |-> F]

\* os.rename(old, new) on a POSIX filesystem, for a directory old
os_rename(D, F, old, new) ==
    LET keep(e) == {[err |-> e, dirs |-> D, dfiles |-> F]}
        moved == [err |-> "ok",
                  dirs |-> (D \ Under(old, D))
                             \cup {Rebase(old, new, q) : q \in Under(old, D)},
                  dfiles |-> [q \in ((DOMAIN F) \ Under(old, DOMAIN F))
                                     \cup {Rebase(old, new, r) : r \in Under(old, DOMAIN F)}
                              |-> IF \E r \in Under(old, DOMAIN F) : Rebase(old, new, r) = q
                                  THEN F[CHOOSE r \in Under(old, DOMAIN F) :
                                             Rebase(old, new, r) = q]
                                  ELSE F[q]]]
    IN  IF ~DiskExists(D, F, old) THEN keep("FileNotFoundError")
        ELSE IF old = new THEN keep("ok")
        ELSE IF IsPrefix(old, new) THEN keep("OSError")
        ELSE IF new \in DOMAIN F THEN keep("OSError")
        ELSE IF new \in D /\ \E q \in D \cup DOMAIN F : q # new /\ IsPrefix(new, q)
             \* ENOTEMPTY or EEXIST, as the filesystem chooses
             THEN keep("OSError") \cup keep("FileExistsError")
        \* an empty directory at new is silently replaced
        ELSE {moved}

\* FolderDiskService.rename_folder: the set of possible outcomes
rename_folder(D, F, old_path, new_path) ==
    os_rename(mkdir_p(D, PathParent(new_path)), F, old_path, new_path)

\* ----------------------------------------------------------- catalog store
FolderRow(id, name, parent_id, creator_user_id, is_published, storage_path, virtual_path) ==
    [id |-> id, name |-> name, parent_id |-> parent_id,
     creator_user_id |-> creator_user_id, is_published |-> is_published,
     storage_path |-> storage_path, virtual_path |-> virtual_path]

\* FolderRepository.get_by_virtual_path: the matching rows (unique column)
by_virtual_path(T, virtual_path) == {i \in DOMAIN T : T[i].virtual_path = virtual_path}

\* unique=True on storage_path and virtual_path, checked for row r against
\* every other row of table T
\* variant: the columns carry no unique constraint
UniqueOk_Unconstrained(T, r) == TRUE

UniqueOk(T, r) ==
    \A i \in DOMAIN T : i # r.id =>
        /\ T[i].virtual_path # r.virtual_path
        /\ T[i].storage_path # r.storage_path

\* nullable=False columns and the parent foreign key of fjc_folder
FolderConstraintsOk(T, r) ==
    /\ r.name # NoneStr
    /\ r.creator_user_id # Null
    /\ r.is_published # Null
    /\ r.parent_id # NoneId => r.parent_id \in DOMAIN T
    /\ UniqueOk(T, r)

\* variant: the foreign key lacks ON DELETE CASCADE, only the row itself goes
CascadeFolders_NoCascade(T, S) == S

\* ondelete="CASCADE" on fjc_folder.parent_id: ids removed with folder id
RECURSIVE CascadeFolders(_, _)
CascadeFolders(T, S) ==
    LET kids == {i \in DOMAIN T : T[i].parent_id \in S} \ S
    IN  IF kids = {} THEN S ELSE CascadeFolders(T, S \cup kids)

\* ondelete="CASCADE" on fjc_file.folder_id
CascadeFiles(T, S) == {i \in DOMAIN T : T[i].folder_id \in S}

Restrict(T, S) == [i \in S |-> T[i]]

FileRow(id, name, folder_id, uploader_user_id, size_bytes, mime_type, storage_path, virtual_path) ==
    [id |-> id, name |-> name, folder_id |-> folder_id,
     uploader_user_id |-> uploader_user_id, size_bytes |-> size_bytes,
     mime_type |-> mime_type, storage_path |-> storage_path,
     virtual_path |-> virtual_path]

\* primary key, unique columns and the folder foreign key of fjc_file
FileConstraintsOk(TF, T, r) ==
    /\ r.id \notin DOMAIN TF
    /\ r.folder_id # NoneId => r.folder_id \in DOMAIN T
    /\ UniqueOk(TF, r)

\* ---------------------------------------------------------- request slots
NoRow == FolderRow(NoneId, NoneStr, NoneId, Null, Null, NoneStr, NoneStr)

NoData ==
    [name |-> NoneStr, parent_id |-> NoneId, creator_user_id |-> Null,
     is_published |-> Null, fields_set |-> {}]

EmptySnapshot == [folders |-> << >>, files |-> << >>, dirs |-> {}, dfiles |-> << >>]

NoUpload ==
    [file_name |-> NoneStr, uploader_user_id |-> Null, folder_path |-> NoneStr,
     stream |-> << >>]

NoFile == FileRow(NoneId, NoneStr, NoneId, Null, 0, Null, NoneStr, NoneStr)

NoFileData == [name |-> NoneStr, folder_id |-> NoneId, fields_set |-> {}]

IdleProc ==
    [op |-> "idle", pc |-> "idle", folder_id |-> NoneId, data |-> NoData,
     existing |-> NoRow, virt |-> NoneStr, old_path |-> << >>, new_path |-> << >>,
     disk_done |-> FALSE, db_done |-> FALSE,
     upload |-> NoUpload, file_id |-> NoneId, fout |-> NoFile,
     file_path |-> NoneStr, db_item |-> NoFile, fdata |-> NoFileData,
     result |-> "none", out |-> NoRow, pre |-> EmptySnapshot,
     rid |-> 0, overlapped |-> {}]

Snapshot == [folders |-> folders, files |-> files, dirs |-> dirs, dfiles |-> dfiles]

InFlight(q) == proc[q].pc \notin {"idle", "done"}
Quiescent == \A q \in Procs : ~InFlight(q)
CanStart(p) == proc[p].pc = "idle" /\ nops < MaxOps

Begin(p, op, folder_id, data) ==
    [IdleProc EXCEPT !.op = op, !.folder_id = folder_id, !.data = data,
                     !.pre = Snapshot, !.rid = nops + 1,
                     !.overlapped = {proc[q].rid : q \in {r \in Procs : InFlight(r)}}]

Raise(pr, exc) == [pr EXCEPT !.pc = "done", !.result = exc]

Init ==
    /\ folders = << >>
    /\ files = << >>
    /\ dirs = {}
    /\ dfiles = << >>
    /\ nextId = 1
    /\ nops = 0
    /\ proc = [p \in Procs |-> IdleProc]
    /\ hist = {}
    /\ uploaded = << >>

\* ------------------------------------------------------ request validation
\* validators.validate_no_slash, applied to the name of FolderIn,
\* FolderUpdate, FileIn and FileUpdate: TRUE when the name is accepted
validate_no_slash(name) == \A i \in 1..Len(name) : name[i] # SEP

\* a name the validator rejects
BadNames == {<<"a", SEP, "b">>}

\* -------------------------------------------------- FolderService.create
FieldNames == {"name", "parent_id", "creator_user_id", "is_published"}

\* identifiers a client can send: those of existing rows, or one of no row
IdInputs == (DOMAIN folders) \cup {MissingId}

\* FolderIn payloads (all fields given; parent_id may be null)
FolderInSet ==
    [name : Names, parent_id : {NoneId} \cup IdInputs,
     creator_user_id : {"u1"}, is_published : {"true"},
     fields_set : {FieldNames}]
    \cup [name : BadNames, parent_id : {NoneId, MissingId},
          creator_user_id : {"u1"}, is_published : {"true"},
          fields_set : {FieldNames}]

\* variant: a parent that is not found counts as no parent
CreateStart_MissingParentIsRoot(p, data) ==
    /\ CanStart(p)
    /\ nops' = nops + 1
    /\ LET pr == [Begin(p, "create", NoneId, data) EXCEPT !.pc = "create_probe"] IN
       proc' = [proc EXCEPT ![p] =
          IF ~validate_no_slash(data.name)
          THEN Raise(pr, "ValidationError")
          ELSE IF data.parent_id \in DOMAIN folders
          THEN [pr EXCEPT !.virt =
                   rstrip(folders[data.parent_id].virtual_path)
                       \o <<SEP>> \o data.name \o <<SEP>>]
          ELSE [pr EXCEPT !.virt = base_virtual \o data.name \o <<SEP>>]]
    /\ UNCHANGED <<folders, files, dirs, dfiles, nextId, hist, uploaded>>

\* lines 64-68: resolve the parent, compute the virtual path
CreateStart(p, data) ==
    /\ CanStart(p)
    /\ nops' = nops + 1
    /\ LET pr == [Begin(p, "create", NoneId, data) EXCEPT !.pc = "create_probe"] IN
       proc' = [proc EXCEPT ![p] =
          IF ~validate_no_slash(data.name)
          THEN Raise(pr, "ValidationError")
          ELSE IF data.parent_id # NoneId
          THEN IF data.parent_id \in DOMAIN folders
               THEN [pr EXCEPT !.virt =
                        rstrip(folders[data.parent_id].virtual_path)
                            \o <<SEP>> \o data.name \o <<SEP>>]
               ELSE Raise(pr, "NoResultFound")
          ELSE [pr EXCEPT !.virt = base_virtual \o data.name \o <<SEP>>]]
    /\ UNCHANGED <<folders, files, dirs, dfiles, nextId, hist, uploaded>>

\* variant: the probe result is ignored
CreateProbe_Ignored(p) ==
    /\ proc[p].pc = "create_probe"
    /\ proc' = [proc EXCEPT ![p] = [@ EXCEPT !.pc = "create_disk"]]
    /\ UNCHANGED <<folders, files, dirs, dfiles, nextId, nops, hist, uploaded>>

\* lines 70-75: probe the catalog by virtual path
CreateProbe(p) ==
    /\ proc[p].pc = "create_probe"
    /\ proc' = [proc EXCEPT ![p] =
          IF by_virtual_path(folders, proc[p].virt) # {}
          THEN Raise(@, "FolderAlreadyExistsError")
          ELSE [@ EXCEPT !.pc = "create_disk"]]
    /\ UNCHANGED <<folders, files, dirs, dfiles, nextId, nops, hist, uploaded>>

\* variant: an existing directory is adopted
CreateDisk_AdoptExisting(p) ==
    /\ proc[p].pc = "create_disk"
    /\ LET phys_path == compute_storage_path(proc[p].virt)
       IN  /\ dirs' = mkdir_p(dirs, phys_path)
           /\ dfiles' = dfiles
           /\ proc' = [proc EXCEPT ![p] =
                 [@ EXCEPT !.pc = "create_db", !.new_path = phys_path,
                           !.disk_done = TRUE]]
    /\ UNCHANGED <<folders, files, nextId, nops, hist, uploaded>>

\* lines 78-79: compute the physical path, create the directory
CreateDisk(p) ==
    /\ proc[p].pc = "create_disk"
    /\ LET phys_path == compute_storage_path(proc[p].virt)
           r == create_folder(dirs, dfiles, phys_path)
       IN  /\ dirs' = r.dirs
           /\ dfiles' = r.dfiles
           /\ proc' = [proc EXCEPT ![p] =
                 IF r.err = "ok"
                 THEN [@ EXCEPT !.pc = "create_db", !.new_path = phys_path,
                                !.disk_done = TRUE]
                 ELSE Raise(@, r.err)]
    /\ UNCHANGED <<folders, files, nextId, nops, hist, uploaded>>

\* lines 82-87 and FolderRepository.create: insert and commit the row
\* variant: a failed insert removes the directory the disk step created
CreateDb_Rollback(p) ==
    /\ proc[p].pc = "create_db"
    /\ LET d == proc[p].data
           row == FolderRow(nextId, d.name, d.parent_id, d.creator_user_id,
                            d.is_published, PathStr(proc[p].new_path), proc[p].virt)
       IN  IF FolderConstraintsOk(folders, row)
           THEN /\ folders' = [i \in DOMAIN folders \cup {nextId} |->
                                  IF i = nextId THEN row ELSE folders[i]]
                /\ proc' = [proc EXCEPT ![p] =
                      [@ EXCEPT !.pc = "done", !.result = "ok", !.out = row,
                                !.db_done = TRUE, !.folder_id = nextId]]
                /\ UNCHANGED <<dirs, dfiles>>
           ELSE /\ folders' = folders
                /\ proc' = [proc EXCEPT ![p] = Raise(@, "IntegrityError")]
                /\ dirs' = delete_folder(dirs, dfiles, proc[p].new_path).dirs
                /\ dfiles' = delete_folder(dirs, dfiles, proc[p].new_path).dfiles
    /\ nextId' = nextId + 1
    /\ UNCHANGED <<files, nops, hist, uploaded>>

CreateDb(p) ==
    /\ proc[p].pc = "create_db"
    /\ LET d == proc[p].data
           row == FolderRow(nextId, d.name, d.parent_id, d.creator_user_id,
                            d.is_published, PathStr(proc[p].new_path), proc[p].virt)
       IN  IF FolderConstraintsOk(folders, row)
           THEN /\ folders' = [i \in DOMAIN folders \cup {nextId} |->
                                  IF i = nextId THEN row ELSE folders[i]]
                /\ proc' = [proc EXCEPT ![p] =
                      [@ EXCEPT !.pc = "done", !.result = "ok", !.out = row,
                                !.db_done = TRUE, !.folder_id = nextId]]
           ELSE /\ folders' = folders
                /\ proc' = [proc EXCEPT ![p] = Raise(@, "IntegrityError")]
    /\ nextId' = nextId + 1
    /\ UNCHANGED <<files, dirs, dfiles, nops, hist, uploaded>>


\* -------------------------------------------------- FolderService.update
\* FolderUpdate payloads: every field optional; fields_set is pydantic's
\* model_fields_set (a field may be set to null explicitly)
\* parent_id: absent, null, or an identifier
ParentChoices ==
    {<<NoneId, {}>>, <<NoneId, {"parent_id"}>>}
        \cup {<<i, {"parent_id"}>> : i \in IdInputs}

\* creator_user_id: absent or null, next to any name and parent_id
CreatorChoices == {<<Null, {}>>, <<Null, {"creator_user_id"}>>}

\* payloads that supply one field only: a new creator, or is_published
FlagPayloads ==
    {[NoData EXCEPT !.creator_user_id = "u2", !.fields_set = {"creator_user_id"}],
     [NoData EXCEPT !.is_published = "false", !.fields_set = {"is_published"}]}

FolderUpdateSet ==
    {[name |-> n, parent_id |-> pc[1], creator_user_id |-> cc[1],
      is_published |-> Null,
      fields_set |-> (IF n # NoneStr THEN {"name"} ELSE {}) \cup pc[2] \cup cc[2]] :
        n \in Names \cup {NoneStr}, pc \in ParentChoices, cc \in CreatorChoices}
    \cup FlagPayloads
    \cup {[NoData EXCEPT !.name = n, !.fields_set = {"name"}] : n \in BadNames}

\* line 95: data.name or existing.name
new_name(data, existing) == IF data.name # NoneStr THEN data.name ELSE existing.name

\* variant: the directory is never moved, the catalog is written directly
UpdatePaths_NoRename(pr, new_virt) ==
    [pr EXCEPT !.virt = new_virt,
               !.old_path = PathOf(pr.existing.storage_path),
               !.new_path = compute_storage_path(new_virt),
               !.pc = "update_db"]

\* lines 108-111: old and new physical path; rename only if they differ
UpdatePaths(pr, new_virt) ==
    LET old_path == PathOf(pr.existing.storage_path)
        new_path == compute_storage_path(new_virt)
    IN  [pr EXCEPT !.virt = new_virt, !.old_path = old_path, !.new_path = new_path,
                   !.pc = IF PathStr(old_path) # PathStr(new_path)
                          THEN "update_disk" ELSE "update_db"]

\* variant: without a parent_id the folder is placed under the base root
UpdateStart_PrefixFromBase(p, folder_id, data) ==
    /\ CanStart(p)
    /\ nops' = nops + 1
    /\ LET pr == Begin(p, "update", folder_id, data) IN
       proc' = [proc EXCEPT ![p] =
          IF ~validate_no_slash(data.name)
          THEN Raise(pr, "ValidationError")
          ELSE IF folder_id \notin DOMAIN folders
          THEN Raise(pr, "NoResultFound")
          ELSE LET existing == folders[folder_id]
                   pe == [pr EXCEPT !.existing = existing]
               IN  IF data.parent_id # NoneId
                   THEN [pe EXCEPT !.pc = "update_parent"]
                   ELSE UpdatePaths(pe, base_virtual
                                            \o new_name(data, existing) \o <<SEP>>)]
    /\ UNCHANGED <<folders, files, dirs, dfiles, nextId, hist, uploaded>>

\* lines 93-106: load the row; without a parent_id keep the parent prefix
UpdateStart(p, folder_id, data) ==
    /\ CanStart(p)
    /\ nops' = nops + 1
    /\ LET pr == Begin(p, "update", folder_id, data) IN
       proc' = [proc EXCEPT ![p] =
          IF ~validate_no_slash(data.name)
          THEN Raise(pr, "ValidationError")
          ELSE IF folder_id \notin DOMAIN folders
          THEN Raise(pr, "NoResultFound")
          ELSE LET existing == folders[folder_id]
                   pe == [pr EXCEPT !.existing = existing]
               IN  IF data.parent_id # NoneId
                   THEN [pe EXCEPT !.pc = "update_parent"]
                   ELSE LET virt_parent == rsplit_head(rstrip(existing.virtual_path))
                        IN  UpdatePaths(pe, virt_parent \o <<SEP>>
                                            \o new_name(data, existing) \o <<SEP>>)]
    /\ UNCHANGED <<folders, files, dirs, dfiles, nextId, hist, uploaded>>

\* lines 98-103: load the new parent, recompute the prefix
UpdateParent(p) ==
    /\ proc[p].pc = "update_parent"
    /\ LET pr == proc[p]
           data == pr.data
       IN  proc' = [proc EXCEPT ![p] =
              IF data.parent_id # NoneId
              THEN IF data.parent_id \in DOMAIN folders
                   THEN UpdatePaths(pr, rstrip(folders[data.parent_id].virtual_path)
                                        \o <<SEP>> \o new_name(data, pr.existing) \o <<SEP>>)
                   ELSE Raise(pr, "NoResultFound")
              ELSE UpdatePaths(pr, rstrip(base_virtual)
                                   \o <<SEP>> \o new_name(data, pr.existing) \o <<SEP>>)]
    /\ UNCHANGED <<folders, files, dirs, dfiles, nextId, nops, hist, uploaded>>

\* line 112: move the directory on disk
UpdateDisk(p) ==
    /\ proc[p].pc = "update_disk"
    /\ \E r \in rename_folder(dirs, dfiles, proc[p].old_path, proc[p].new_path) :
          /\ dirs' = r.dirs
          /\ dfiles' = r.dfiles
          /\ proc' = [proc EXCEPT ![p] =
                IF r.err = "ok"
                THEN [@ EXCEPT !.pc = "update_db", !.disk_done = TRUE]
                ELSE Raise(@, r.err)]
    /\ UNCHANGED <<folders, files, nextId, nops, hist, uploaded>>

\* variant: storage_path is left out of the UPDATE
UpdateValues_KeepStorage(row, data, storage_path, virtual_path) ==
    [row EXCEPT
        !.name = IF "name" \in data.fields_set THEN data.name ELSE @,
        !.parent_id = IF "parent_id" \in data.fields_set THEN data.parent_id ELSE @,
        !.creator_user_id = IF "creator_user_id" \in data.fields_set
                            THEN data.creator_user_id ELSE @,
        !.is_published = IF "is_published" \in data.fields_set
                         THEN data.is_published ELSE @,
        !.virtual_path = virtual_path]

\* variant: the creator column is overwritten by any flag update
UpdateValues_CreatorReset(row, data, storage_path, virtual_path) ==
    [row EXCEPT
        !.name = IF "name" \in data.fields_set THEN data.name ELSE @,
        !.parent_id = IF "parent_id" \in data.fields_set THEN data.parent_id ELSE @,
        !.creator_user_id = IF "creator_user_id" \in data.fields_set
                            THEN data.creator_user_id
                            ELSE IF "is_published" \in data.fields_set THEN "u2" ELSE @,
        !.is_published = IF "is_published" \in data.fields_set
                         THEN data.is_published ELSE @,
        !.storage_path = storage_path,
        !.virtual_path = virtual_path]

\* FolderRepository.update lines 131-135: the column values of the UPDATE
\* variant: the payload is dumped with its unset fields, which are null
UpdateValues_FullDump(row, data, storage_path, virtual_path) ==
    [row EXCEPT
        !.name = data.name,
        !.parent_id = data.parent_id,
        !.creator_user_id = data.creator_user_id,
        !.is_published = data.is_published,
        !.storage_path = storage_path,
        !.virtual_path = virtual_path]

UpdateValues(row, data, storage_path, virtual_path) ==
    [row EXCEPT
        !.name = IF "name" \in data.fields_set THEN data.name ELSE @,
        !.parent_id = IF "parent_id" \in data.fields_set THEN data.parent_id ELSE @,
        !.creator_user_id = IF "creator_user_id" \in data.fields_set
                            THEN data.creator_user_id ELSE @,
        !.is_published = IF "is_published" \in data.fields_set
                         THEN data.is_published ELSE @,
        !.storage_path = storage_path,
        !.virtual_path = virtual_path]

\* variant: a failed UPDATE is not raised, the row is read back as it is
UpdateDb_ErrorSwallowed(p) ==
    /\ proc[p].pc = "update_db"
    /\ LET pr == proc[p]
           id == pr.folder_id
       IN  IF id \notin DOMAIN folders
           THEN /\ folders' = folders
                /\ proc' = [proc EXCEPT ![p] = [@ EXCEPT !.pc = "update_refetch"]]
           ELSE LET row == UpdateValues(folders[id], pr.data,
                                        PathStr(pr.new_path), pr.virt)
                IN  IF FolderConstraintsOk(folders, row)
                    THEN /\ folders' = [folders EXCEPT ![id] = row]
                         /\ proc' = [proc EXCEPT ![p] =
                               [@ EXCEPT !.pc = "update_refetch", !.db_done = TRUE]]
                    ELSE /\ folders' = folders
                         /\ proc' = [proc EXCEPT ![p] =
                               [@ EXCEPT !.pc = "update_refetch"]]
    /\ UNCHANGED <<files, dirs, dfiles, nextId, nops, hist, uploaded>>

\* lines 115-120 and FolderRepository.update lines 137-142: UPDATE, commit
UpdateDb(p) ==
    /\ proc[p].pc = "update_db"
    /\ LET pr == proc[p]
           id == pr.folder_id
       IN  IF id \notin DOMAIN folders
           THEN /\ folders' = folders
                /\ proc' = [proc EXCEPT ![p] = [@ EXCEPT !.pc = "update_refetch"]]
           ELSE LET row == UpdateValues(folders[id], pr.data,
                                        PathStr(pr.new_path), pr.virt)
                IN  IF FolderConstraintsOk(folders, row)
                    THEN /\ folders' = [folders EXCEPT ![id] = row]
                         /\ proc' = [proc EXCEPT ![p] =
                               [@ EXCEPT !.pc = "update_refetch", !.db_done = TRUE]]
                    ELSE /\ folders' = folders
                         /\ proc' = [proc EXCEPT ![p] = Raise(@, "IntegrityError")]
    /\ UNCHANGED <<files, dirs, dfiles, nextId, nops, hist, uploaded>>

\* FolderRepository.update line 143: read the row back
UpdateRefetch(p) ==
    /\ proc[p].pc = "update_refetch"
    /\ proc' = [proc EXCEPT ![p] =
          IF proc[p].folder_id \in DOMAIN folders
          THEN [@ EXCEPT !.pc = "done", !.result = "ok",
                         !.out = folders[proc[p].folder_id]]
          ELSE Raise(@, "NoResultFound")]
    /\ UNCHANGED <<folders, files, dirs, dfiles, nextId, nops, hist, uploaded>>

\* -------------------------------------------------- FolderService.delete
\* line 127: load the row
DeleteStart(p, folder_id) ==
    /\ CanStart(p)
    /\ nops' = nops + 1
    /\ LET pr == Begin(p, "delete", folder_id, NoData) IN
       proc' = [proc EXCEPT ![p] =
          IF folder_id \in DOMAIN folders
          THEN [pr EXCEPT !.existing = folders[folder_id], !.pc = "delete_disk",
                          !.old_path = PathOf(folders[folder_id].storage_path)]
          ELSE Raise(pr, "NoResultFound")]
    /\ hist' = hist \cup {"delete"}
    /\ UNCHANGED <<folders, files, dirs, dfiles, nextId, uploaded>>

\* variant: the catalog row is deleted first, the disk step is left out
DeleteDisk_RowFirst(p) ==
    /\ proc[p].pc = "delete_disk"
    /\ proc' = [proc EXCEPT ![p] = [@ EXCEPT !.pc = "delete_db"]]
    /\ UNCHANGED <<folders, files, dirs, dfiles, nextId, nops, hist, uploaded>>

\* line 128: the disk step runs in a worker thread, so the existence test of
\* delete_folder and the removal are two steps other requests can come
\* between; here the test, and the whole step when there is no directory
DeleteDisk(p) ==
    /\ proc[p].pc = "delete_disk"
    /\ IF proc[p].old_path \in dirs
       THEN /\ proc' = [proc EXCEPT ![p] = [@ EXCEPT !.pc = "delete_rmtree"]]
            /\ UNCHANGED <<dirs, dfiles>>
       ELSE LET r == delete_folder(dirs, dfiles, proc[p].old_path)
            IN  /\ dirs' = r.dirs
                /\ dfiles' = r.dfiles
                /\ proc' = [proc EXCEPT ![p] =
                      IF r.err = "ok"
                      THEN [@ EXCEPT !.pc = "delete_db", !.disk_done = TRUE]
                      ELSE Raise(@, r.err)]
    /\ UNCHANGED <<folders, files, nextId, nops, hist, uploaded>>

\* line 128, shutil.rmtree after a positive existence test: it raises when
\* the directory has been removed in between
DeleteRmtree(p) ==
    /\ proc[p].pc = "delete_rmtree"
    /\ IF proc[p].old_path \in dirs
       THEN LET r == delete_folder(dirs, dfiles, proc[p].old_path)
            IN  /\ dirs' = r.dirs
                /\ dfiles' = r.dfiles
                /\ proc' = [proc EXCEPT ![p] =
                      IF r.err = "ok"
                      THEN [@ EXCEPT !.pc = "delete_db", !.disk_done = TRUE]
                      ELSE Raise(@, r.err)]
       ELSE /\ proc' = [proc EXCEPT ![p] = Raise(@, "FileNotFoundError")]
            /\ UNCHANGED <<dirs, dfiles>>
    /\ UNCHANGED <<folders, files, nextId, nops, hist, uploaded>>

\* line 129 and FolderRepository.delete: DELETE with cascade, commit
DeleteDb(p) ==
    /\ proc[p].pc = "delete_db"
    /\ LET id == proc[p].folder_id IN
       IF id \in DOMAIN folders
       THEN LET gone == CascadeFolders(folders, {id})
            IN  /\ folders' = Restrict(folders, (DOMAIN folders) \ gone)
                /\ files' = Restrict(files, (DOMAIN files) \ CascadeFiles(files, gone))
                /\ proc' = [proc EXCEPT ![p] =
                      [@ EXCEPT !.pc = "done", !.result = "ok", !.db_done = TRUE]]
       ELSE /\ UNCHANGED <<folders, files>>
            /\ proc' = [proc EXCEPT ![p] = Raise(@, "NoResultFound")]
    /\ UNCHANGED <<dirs, dfiles, nextId, nops, hist, uploaded>>


\* ---------------------------------------------------- FileService.upload
\* UploadFile.filename: a name, a name with a separator in it, or None
FileNames == {<<"f", ".", "t">>, <<"x", SEP, "f", ".", "t">>, NoneStr}
Contents == {<<1, 2>>}

\* str(uuid)
IdStr(id) == <<ToString(id)>>

\* Path(name).name: the final component
basename(name) ==
    IF \A i \in 1..Len(name) : name[i] # SEP
    THEN name
    ELSE LET k == CHOOSE i \in 1..Len(name) :
                      name[i] = SEP /\ \A j \in (i + 1)..Len(name) : name[j] # SEP
         IN  SubSeq(name, k + 1, Len(name))

\* Path(name).suffix
suffix(name) ==
    LET n == basename(name)
    IN  IF \A i \in 1..Len(n) : n[i] # "."
        THEN << >>
        ELSE LET k == CHOOSE i \in 1..Len(n) :
                          n[i] = "." /\ \A j \in (i + 1)..Len(n) : n[j] # "."
             IN  IF 1 < k /\ k < Len(n) THEN SubSeq(n, k, Len(n)) ELSE << >>

\* FileDiskService.get_mime_type: mimetypes.guess_type by extension
get_mime_type(path) ==
    IF suffix(path[Len(path)]) = <<".", "t">> THEN "text/plain"
    ELSE "application/octet-stream"

\* str.lower over the letters in use
lower(s) == [i \in 1..Len(s) |-> IF s[i] = "T" THEN "t" ELSE s[i]]

\* an optional list of extensions: None, or a list
NoAllowList == [given |-> FALSE, exts |-> {}]
AllowList(exts) == [given |-> TRUE, exts |-> exts]

\* FileDiskService.__init__: an empty list counts as None
FileDiskService_init(allowed) ==
    IF allowed.given /\ allowed.exts # {}
    THEN AllowList({lower(e) : e \in allowed.exts})
    ELSE NoAllowList

\* settings has no ALLOWED_FILE_EXTENSIONS: getattr(..., None)
allowed_extensions == FileDiskService_init(NoAllowList)

\* FileDiskService.compute_file_path
compute_file_path(virtual_path, filename) ==
    Path(STORAGE_BASE_PATH \o SelectSeq(split(strip(virtual_path)), NonEmpty)
             \o <<filename>>)

\* variant: the file is written before the extension is looked at
save_file_WriteFirst(D, F, allowed, virtual_path, filename, stream) ==
    LET path == compute_file_path(virtual_path, filename)
        ext == lower(suffix(path[Len(path)]))
    IN  [err |-> IF allowed.given /\ ext \notin allowed.exts
                 THEN "ValueError" ELSE "none",
         path |-> path,
         dirs |-> mkdir_p(D, PathParent(path)),
         dfiles |-> [q \in (DOMAIN F) \cup {path} |->
                        IF q = path THEN stream ELSE F[q]]]

\* FileDiskService.save_file on disk (D, F) of a service built with the
\* allow-list allowed
save_file(D, F, allowed, virtual_path, filename, stream) ==
    LET path == compute_file_path(virtual_path, filename)
        ext == lower(suffix(path[Len(path)]))
    IN  IF allowed.given /\ ext \notin allowed.exts
        THEN [err |-> "ValueError", path |-> path, dirs |-> D, dfiles |-> F]
        ELSE [err |-> "none", path |-> path,
              dirs |-> mkdir_p(D, PathParent(path)),
              dfiles |-> [q \in (DOMAIN F) \cup {path} |->
                             IF q = path THEN stream ELSE F[q]]]

\* FileDiskService.delete_file: unlink if it exists
delete_file(F, path) == [q \in (DOMAIN F) \ {path} |-> F[q]]

\* folder paths a client can send: those of existing rows, or the root
PathInputs == {folders[i].virtual_path : i \in DOMAIN folders} \cup {<<SEP>>}

UploadSet ==
    [file_name : FileNames, uploader_user_id : {"u1"},
     folder_path : PathInputs, stream : Contents]

\* variant: the display name, not the identifier, names the file
UploadStart_DisplayName(p, u) ==
    /\ CanStart(p)
    /\ nops' = nops + 1
    /\ nextId' = nextId + 1
    /\ LET pr == [Begin(p, "upload", NoneId, NoData) EXCEPT !.upload = u]
           hit == by_virtual_path(folders, u.folder_path)
       IN  proc' = [proc EXCEPT ![p] =
              IF hit = {}
              THEN Raise(pr, "NoResultFound")
              ELSE LET folder_info == folders[CHOOSE i \in hit : TRUE]
                       file_id == nextId
                       f_name == IF u.file_name = NoneStr THEN IdStr(file_id)
                                 ELSE u.file_name
                       base_virt == rstrip(folder_info.virtual_path)
                   IN  [pr EXCEPT !.existing = folder_info, !.file_id = file_id,
                                  !.upload.file_name = f_name,
                                  !.virt = base_virt \o <<SEP>> \o f_name,
                                  !.pc = "upload_disk"]]
    /\ hist' = hist \cup {"file"}
    /\ uploaded' = IF by_virtual_path(folders, u.folder_path) = {} THEN uploaded
                   ELSE [i \in (DOMAIN uploaded) \cup {nextId} |->
                            IF i = nextId THEN u.stream ELSE uploaded[i]]
    /\ UNCHANGED <<folders, files, dirs, dfiles>>

\* lines 67-76: resolve the folder, generate the id, compute the virtual path
UploadStart(p, u) ==
    /\ CanStart(p)
    /\ nops' = nops + 1
    /\ nextId' = nextId + 1
    /\ LET pr == [Begin(p, "upload", NoneId, NoData) EXCEPT !.upload = u]
           hit == by_virtual_path(folders, u.folder_path)
       IN  proc' = [proc EXCEPT ![p] =
              IF hit = {}
              THEN Raise(pr, "NoResultFound")
              ELSE LET folder_info == folders[CHOOSE i \in hit : TRUE]
                       file_id == nextId
                       f_name == IF u.file_name = NoneStr THEN IdStr(file_id)
                                 ELSE u.file_name
                       base_virt == rstrip(folder_info.virtual_path)
                   IN  [pr EXCEPT !.existing = folder_info, !.file_id = file_id,
                                  !.upload.file_name = f_name,
                                  !.virt = base_virt \o <<SEP>> \o IdStr(file_id)
                                              \o suffix(f_name),
                                  !.pc = "upload_disk"]]
    /\ hist' = hist \cup {"file"}
    /\ uploaded' = IF by_virtual_path(folders, u.folder_path) = {} THEN uploaded
                   ELSE [i \in (DOMAIN uploaded) \cup {nextId} |->
                            IF i = nextId THEN u.stream ELSE uploaded[i]]
    /\ UNCHANGED <<folders, files, dirs, dfiles>>

\* variant: the display name is the name of the file on disk
UploadDisk_DisplayName(p) ==
    /\ proc[p].pc = "upload_disk"
    /\ LET pr == proc[p]
           base_virt == rstrip(pr.existing.virtual_path)
           filename == pr.upload.file_name
           r == save_file(dirs, dfiles, allowed_extensions,
                          IF base_virt # NoneStr THEN base_virt ELSE <<SEP>>,
                          filename, pr.upload.stream)
       IN  /\ dirs' = r.dirs
           /\ dfiles' = r.dfiles
           /\ proc' = [proc EXCEPT ![p] =
                 IF r.err # "none"
                 THEN Raise(@, r.err)
                 ELSE [@ EXCEPT !.pc = "upload_db", !.new_path = r.path,
                                !.disk_done = TRUE]]
    /\ UNCHANGED <<folders, files, nextId, nops, hist, uploaded>>

\* lines 79-83 and FileDiskService.save_file: write the stream to disk
UploadDisk(p) ==
    /\ proc[p].pc = "upload_disk"
    /\ LET pr == proc[p]
           base_virt == rstrip(pr.existing.virtual_path)
           filename == IdStr(pr.file_id) \o suffix(pr.upload.file_name)
           r == save_file(dirs, dfiles, allowed_extensions,
                          IF base_virt # NoneStr THEN base_virt ELSE <<SEP>>,
                          filename, pr.upload.stream)
       IN  /\ dirs' = r.dirs
           /\ dfiles' = r.dfiles
           /\ proc' = [proc EXCEPT ![p] =
                 IF r.err # "none"
                 THEN Raise(@, r.err)
                 ELSE [@ EXCEPT !.pc = "upload_db", !.new_path = r.path,
                                !.disk_done = TRUE]]
    /\ UNCHANGED <<folders, files, nextId, nops, hist, uploaded>>

\* lines 86-104 and FileRepository.create: stat, insert and commit the row
UploadDb(p) ==
    /\ proc[p].pc = "upload_db"
    /\ LET pr == proc[p]
           row == FileRow(pr.file_id, pr.upload.file_name, pr.existing.id,
                          pr.upload.uploader_user_id, Len(dfiles[pr.new_path]),
                          get_mime_type(pr.new_path), PathStr(pr.new_path), pr.virt)
       IN  IF pr.new_path \notin DOMAIN dfiles
           THEN /\ files' = files
                /\ proc' = [proc EXCEPT ![p] = Raise(@, "FileNotFoundError")]
           ELSE IF ~validate_no_slash(pr.upload.file_name)
           THEN /\ files' = files
                /\ proc' = [proc EXCEPT ![p] = Raise(@, "ValidationError")]
           ELSE IF FileConstraintsOk(files, folders, row)
           THEN /\ files' = [i \in (DOMAIN files) \cup {row.id} |->
                                IF i = row.id THEN row ELSE files[i]]
                /\ proc' = [proc EXCEPT ![p] =
                      [@ EXCEPT !.pc = "done", !.result = "ok", !.fout = row,
                                !.db_done = TRUE]]
           ELSE /\ files' = files
                /\ proc' = [proc EXCEPT ![p] = Raise(@, "IntegrityError")]
    /\ UNCHANGED <<folders, dirs, dfiles, nextId, nops, hist, uploaded>>

\* ----------------------------- FileService.delete_file_by_id / _by_path
\* virtual paths of files a client can send: those of rows, or one of no row
FilePathInputs == {files[i].virtual_path : i \in DOMAIN files} \cup {<<SEP, "x">>}

FileIdInputs == (DOMAIN files) \cup {MissingId}

\* FileRepository.get_by_path: the rows the query selects
get_by_path(TF, file_path) == {i \in DOMAIN TF : TF[i].virtual_path = file_path}

\* line 140: load the row by id
FileDeleteByIdStart(p, file_id) ==
    /\ CanStart(p)
    /\ nops' = nops + 1
    /\ LET pr == [Begin(p, "file_delete_by_id", NoneId, NoData)
                     EXCEPT !.file_id = file_id]
       IN  proc' = [proc EXCEPT ![p] =
              IF file_id \in DOMAIN files
              THEN [pr EXCEPT !.db_item = files[file_id], !.pc = "file_delete_disk"]
              ELSE Raise(pr, "NoResultFound")]
    /\ hist' = hist \cup {"file"}
    /\ UNCHANGED <<folders, files, dirs, dfiles, nextId, uploaded>>

\* line 148: load the row by virtual path
FileDeleteByPathStart(p, path) ==
    /\ CanStart(p)
    /\ nops' = nops + 1
    /\ LET pr == [Begin(p, "file_delete_by_path", NoneId, NoData)
                     EXCEPT !.file_path = path]
           hit == get_by_path(files, path)
       IN  proc' = [proc EXCEPT ![p] =
              IF hit # {}
              THEN LET db_item == files[CHOOSE i \in hit : TRUE]
                   IN  [pr EXCEPT !.db_item = db_item, !.file_id = db_item.id,
                                  !.pc = "file_delete_disk"]
              ELSE Raise(pr, "NoResultFound")]
    /\ hist' = hist \cup {"file"}
    /\ UNCHANGED <<folders, files, dirs, dfiles, nextId, uploaded>>

\* variant: the file on disk is left in place
FileDeleteDisk_Skip(p) ==
    /\ proc[p].pc = "file_delete_disk"
    /\ dfiles' = dfiles
    /\ proc' = [proc EXCEPT ![p] =
          [@ EXCEPT !.pc = "file_delete_db",
                    !.old_path = PathOf(proc[p].db_item.storage_path),
                    !.disk_done = TRUE]]
    /\ UNCHANGED <<folders, files, dirs, nextId, nops, hist, uploaded>>

\* lines 141 and 149: the disk step runs in a worker thread, so the existence
\* test of delete_file and the unlink are two steps other requests can come
\* between; here the test, and the whole step when there is no file
FileDeleteDisk(p) ==
    /\ proc[p].pc = "file_delete_disk"
    /\ LET path == PathOf(proc[p].db_item.storage_path)
       IN  IF path \in dirs
           THEN /\ dfiles' = dfiles
                /\ proc' = [proc EXCEPT ![p] = Raise(@, "IsADirectoryError")]
           ELSE IF path \in DOMAIN dfiles
           THEN /\ dfiles' = dfiles
                /\ proc' = [proc EXCEPT ![p] =
                      [@ EXCEPT !.pc = "file_delete_unlink", !.old_path = path]]
           ELSE /\ dfiles' = delete_file(dfiles, path)
                /\ proc' = [proc EXCEPT ![p] =
                      [@ EXCEPT !.pc = "file_delete_db", !.old_path = path,
                                !.disk_done = TRUE]]
    /\ UNCHANGED <<folders, files, dirs, nextId, nops, hist, uploaded>>

\* lines 141 and 149, path.unlink() after a positive existence test: it
\* raises when the file has been removed in between
FileDeleteUnlink(p) ==
    /\ proc[p].pc = "file_delete_unlink"
    /\ IF proc[p].old_path \in DOMAIN dfiles
       THEN /\ dfiles' = delete_file(dfiles, proc[p].old_path)
            /\ proc' = [proc EXCEPT ![p] =
                  [@ EXCEPT !.pc = "file_delete_db", !.disk_done = TRUE]]
       ELSE /\ dfiles' = dfiles
            /\ proc' = [proc EXCEPT ![p] = Raise(@, "FileNotFoundError")]
    /\ UNCHANGED <<folders, files, dirs, nextId, nops, hist, uploaded>>

\* lines 142 and 150 and FileRepository.delete: delete the row and commit
FileDeleteDb(p) ==
    /\ proc[p].pc = "file_delete_db"
    /\ IF proc[p].file_id \in DOMAIN files
       THEN /\ files' = Restrict(files, (DOMAIN files) \ {proc[p].file_id})
            /\ proc' = [proc EXCEPT ![p] =
                  [@ EXCEPT !.pc = "done", !.result = "ok", !.db_done = TRUE]]
       ELSE /\ files' = files
            /\ proc' = [proc EXCEPT ![p] = Raise(@, "NoResultFound")]
    /\ UNCHANGED <<folders, dirs, dfiles, nextId, nops, hist, uploaded>>

\* ------------------------------------------ api/file.py download_file_by_path
\* the response to GET /files/download for file_path on catalog TF and disk
\* files F: the row is looked up by virtual path and FileResponse reads the
\* file at the row's storage_path
download_file_by_path(TF, F, file_path) ==
    LET hit == get_by_path(TF, file_path)
        none == [status |-> 404, body |-> << >>, filename |-> NoneStr,
                 media_type |-> Null]
    IN  IF hit = {} THEN none
        ELSE LET info == TF[CHOOSE i \in hit : TRUE]
                 path == PathOf(info.storage_path)
             IN  IF path \notin DOMAIN F
                 THEN [none EXCEPT !.status = 500]
                 ELSE [status |-> 200, body |-> F[path], filename |-> info.name,
                       media_type |-> IF info.mime_type # Null THEN info.mime_type
                                      ELSE "application/octet-stream"]

\* ------------------------------------------- FileService.update_metadata
\* FileUpdate payloads: name and folder_id, both optional
FileUpdateSet ==
    {NoFileData,
     [NoFileData EXCEPT !.name = <<"g", ".", "t">>, !.fields_set = {"name"}]}

\* the fields a FileUpdate object has
FileUpdateFields == {"name", "folder_id"}

\* lines 114-121: load the row, then evaluate data.virtual_path, a field
\* FileUpdate does not have
FileUpdateStart(p, file_id, data) ==
    /\ CanStart(p)
    /\ nops' = nops + 1
    /\ LET pr == [Begin(p, "file_update", NoneId, NoData)
                     EXCEPT !.file_id = file_id, !.fdata = data]
       IN  proc' = [proc EXCEPT ![p] =
              IF ~validate_no_slash(data.name)
              THEN Raise(pr, "ValidationError")
              ELSE IF file_id \notin DOMAIN files
              THEN Raise(pr, "NoResultFound")
              ELSE IF "virtual_path" \notin FileUpdateFields
              THEN Raise([pr EXCEPT !.db_item = files[file_id]], "AttributeError")
              ELSE [pr EXCEPT !.db_item = files[file_id], !.pc = "file_update_disk"]]
    /\ hist' = hist \cup {"file"}
    /\ UNCHANGED <<folders, files, dirs, dfiles, nextId, uploaded>>

\* the response has been delivered; the slot is free again
Respond(p) ==
    /\ proc[p].pc = "done"
    /\ proc' = [proc EXCEPT ![p] = IdleProc]
    /\ hist' = IF proc[p].result = "ok" THEN hist ELSE hist \cup {"failed"}
    /\ UNCHANGED <<folders, files, dirs, dfiles, nextId, nops, uploaded>>

\* --------------------------------------------------------- specification
\* requests are served one at a time by slot 1
SeqProcs == {1}

\* the requests clients send: payloads and keys, per operation
Requests ==
    [create |-> FolderInSet, update |-> FolderUpdateSet, folder_id |-> IdInputs,
     upload |-> UploadSet, file_id |-> FileIdInputs, file_path |-> FilePathInputs,
     file_update |-> FileUpdateSet]

\* one step of the request served by slot p, requests drawn from R
Step(p, R) ==
    \/ \E data \in R.create : CreateStart(p, data)
    \/ CreateProbe(p)
    \/ CreateDisk(p)
    \/ CreateDb(p)
    \/ \E id \in R.folder_id : \E data \in R.update : UpdateStart(p, id, data)
    \/ UpdateParent(p)
    \/ UpdateDisk(p)
    \/ UpdateDb(p)
    \/ UpdateRefetch(p)
    \/ \E id \in R.folder_id : DeleteStart(p, id)
    \/ DeleteDisk(p)
    \/ DeleteRmtree(p)
    \/ DeleteDb(p)
    \/ \E u \in R.upload : UploadStart(p, u)
    \/ UploadDisk(p)
    \/ UploadDb(p)
    \/ \E id \in R.file_id : FileDeleteByIdStart(p, id)
    \/ \E path \in R.file_path : FileDeleteByPathStart(p, path)
    \/ FileDeleteDisk(p)
    \/ FileDeleteUnlink(p)
    \/ FileDeleteDb(p)
    \/ \E id \in R.file_id : \E data \in R.file_update : FileUpdateStart(p, id, data)
    \/ Respond(p)

Next == \E p \in SeqProcs : Step(p, Requests)

Spec == Init /\ [][Next]_vars

\* the requests of the concurrent specification: well-formed payloads that
\* address existing rows (a row may be gone by the time a step reads it)
ConcRequests ==
    [create |-> {d \in FolderInSet :
                    d.name \in Names /\ d.parent_id \in {NoneId} \cup DOMAIN folders},
     update |-> {[NoData EXCEPT !.name = n, !.fields_set = {"name"}] : n \in Names}
                \cup {[NoData EXCEPT !.parent_id = i, !.fields_set = {"parent_id"}] :
                          i \in DOMAIN folders},
     folder_id |-> DOMAIN folders,
     upload |-> {u \in UploadSet : /\ by_virtual_path(folders, u.folder_path) # {}
                                   /\ u.file_name = <<"f", ".", "t">>},
     file_id |-> DOMAIN files,
     file_path |-> {files[i].virtual_path : i \in DOMAIN files},
     file_update |-> {d \in FileUpdateSet : d.name # NoneStr}]

\* requests are served concurrently by all slots, each await of a handler
\* being one step; MaxConcOps requests are issued
NextConc == \E p \in Procs : Step(p, ConcRequests) /\ nops' <= MaxConcOps

SpecConc == Init /\ [][NextConc]_vars


\* ------------------------------------------- delete followed by create
\* a catalog and disk the service has been left with by three successful
\* requests (create "a" -> 1, create "a" under 1 -> 2, rename 1 to "b"): the
\* behaviours of Spec reach it
RenamedParent ==
    [folders |-> <<FolderRow(1, <<"b">>, NoneId, "u1", "true",
                             <<SEP, "s", SEP, "b">>, <<SEP, "b", SEP>>),
                   FolderRow(2, <<"a">>, 1, "u1", "true",
                             <<SEP, "s", SEP, "a", SEP, "a">>,
                             <<SEP, "a", SEP, "a", SEP>>)>>,
     files |-> << >>,
     dirs |-> {<< <<"s">> >>, << <<"s">>, <<"b">> >>, << <<"s">>, <<"b">>, <<"a">> >>},
     dfiles |-> << >>]

InitReuse ==
    /\ folders = RenamedParent.folders
    /\ files = RenamedParent.files
    /\ dirs = RenamedParent.dirs
    /\ dfiles = RenamedParent.dfiles
    /\ nextId = Len(RenamedParent.folders) + 1
    /\ nops = 0
    /\ proc = [p \in Procs |-> IdleProc]
    /\ hist = {}
    /\ uploaded = << >>

\* Delete and Create requests only, a finished request staying in its slot
\* until the response is delivered
NextReuse ==
    \E p \in Procs :
        /\ \/ \E data \in ConcRequests.create : CreateStart(p, data)
           \/ CreateProbe(p)
           \/ CreateDisk(p)
           \/ CreateDb(p)
           \/ \E id \in DOMAIN folders : DeleteStart(p, id)
           \/ DeleteDisk(p)
           \/ DeleteRmtree(p)
           \/ DeleteDb(p)
           \/ Respond(p)
        /\ nops' <= MaxConcOps

SpecReuse == InitReuse /\ [][NextReuse]_vars

\* -------------------------------------------------------- path translation
\* the translation functions applied to arbitrary virtual paths: strings of
\* at most MaxPathLen characters over the separator, a letter and the dot
PathAlphabet == {SEP, "a", "."}
VirtualPathInputs == UNION {[1..k -> PathAlphabet] : k \in 0..MaxPathLen}
\* the name FileService.upload stores a file under: identifier + extension
StoredFileName == IdStr(1) \o <<".", "t">>

InitTranslate ==
    /\ folders = << >>
    /\ files = << >>
    /\ dirs = {}
    /\ dfiles = << >>
    /\ nextId = 1
    /\ nops = 0
    /\ hist = {}
    /\ uploaded = << >>
    /\ \E v \in VirtualPathInputs :
       \E f \in {"compute_storage_path", "compute_file_path"} :
           proc = [p \in Procs |->
                      IF p \in SeqProcs
                      THEN [IdleProc EXCEPT !.op = f, !.pc = "translate", !.virt = v]
                      ELSE IdleProc]

\* FolderDiskService.compute_storage_path(virtual_path)
TranslateFolder(p) ==
    /\ proc[p].pc = "translate" /\ proc[p].op = "compute_storage_path"
    /\ proc' = [proc EXCEPT ![p] =
          [@ EXCEPT !.new_path = compute_storage_path(proc[p].virt),
                    !.pc = "done", !.result = "ok"]]
    /\ UNCHANGED <<folders, files, dirs, dfiles, nextId, nops, hist, uploaded>>

\* FileDiskService.compute_file_path(virtual_path, filename)
TranslateFile(p) ==
    /\ proc[p].pc = "translate" /\ proc[p].op = "compute_file_path"
    /\ proc' = [proc EXCEPT ![p] =
          [@ EXCEPT !.new_path = compute_file_path(proc[p].virt, StoredFileName),
                    !.pc = "done", !.result = "ok"]]
    /\ UNCHANGED <<folders, files, dirs, dfiles, nextId, nops, hist, uploaded>>

NextTranslate == \E p \in SeqProcs : TranslateFolder(p) \/ TranslateFile(p)

SpecTranslate == InitTranslate /\ [][NextTranslate]_vars

\* ------------------------------------------------------------ HTTP boundary
\* api/folder.py: the except clauses of create_folder, update_folder and
\* delete_folder; a body that fails validation never reaches the handler
\* (FastAPI answers 422)
StatusCode(op, result) ==
    IF result = "ok"
    THEN (IF op = "create" THEN 201 ELSE IF op = "delete" THEN 204 ELSE 200)
    ELSE IF result = "ValidationError" /\ op \in {"create", "update"}
    THEN 422
    ELSE IF op = "create"
    THEN (IF result \in {"FileExistsError", "IntegrityError", "FolderAlreadyExistsError"}
          THEN 409 ELSE 500)
    ELSE IF op = "update"
    THEN (IF result = "NoResultFound" THEN 404
          ELSE IF result \in {"FileExistsError", "IntegrityError"} THEN 409
          ELSE 500)
    ELSE IF op = "delete"
    THEN (IF result = "NoResultFound" THEN 404 ELSE 500)
    ELSE 500

\* the status of the response of a file handler: upload_file, update_file and
\* delete_file (by path) catch the exceptions the coordinator raises, first
\* matching clause first; a request body that fails validation is answered
\* by the framework; a pydantic ValidationError is a ValueError
FileStatusCode(op, result) ==
    IF result = "ok"
    THEN (IF op = "upload" THEN 201
          ELSE IF op = "file_delete_by_path" THEN 204 ELSE 200)
    ELSE IF op = "upload"
    THEN (IF result \in {"ValueError", "ValidationError"} THEN 400
          ELSE IF result = "IntegrityError" THEN 409
          ELSE 500)
    ELSE IF op = "file_update"
    THEN (IF result = "ValidationError" THEN 422
          ELSE IF result = "NoResultFound" THEN 404
          ELSE IF result \in {"ValueError", "IntegrityError"} THEN 409
          ELSE 500)
    ELSE IF op = "file_delete_by_path"
    THEN (IF result = "NoResultFound" THEN 404 ELSE 500)
    ELSE 500

\* FolderRepository.list_by_parent_paginated: the rows the query selects
list_by_parent(T, parent_id) == {i \in DOMAIN T : T[i].parent_id = parent_id}

\* ORDER BY name: names compare character by character
Ord(c) == CASE c = SEP -> 47 [] c = "a" -> 97 [] c = "b" -> 98 [] OTHER -> 0
RECURSIVE NameLeq(_, _)
NameLeq(m, n) ==
    IF m = << >> THEN TRUE
    ELSE IF n = << >> THEN FALSE
    ELSE IF Ord(Head(m)) # Ord(Head(n)) THEN Ord(Head(m)) < Ord(Head(n))
    ELSE NameLeq(Tail(m), Tail(n))

\* FolderRepository.list_by_parent_paginated, first page, no smaller than the
\* table: the orders in which the query can return the selected rows (rows
\* of equal name in either order)
list_by_parent_paginated(T, parent_id) ==
    LET S == list_by_parent(T, parent_id)
    IN  {s \in [1..Cardinality(S) -> S] :
            /\ \A i, j \in DOMAIN s : i # j => s[i] # s[j]
            /\ \A i, j \in DOMAIN s : i < j => NameLeq(T[s[i]].name, T[s[j]].name)}

\* the methods FolderRepository and FolderService define
FolderRepositoryMethods ==
    {"create", "get_by_id", "get_by_virtual_path", "list_by_parent_paginated",
     "update", "delete"}
FolderServiceMethods ==
    {"list", "get_by_id", "get_by_virtual_path", "create", "update", "delete"}

\* FolderService.list: calls self.repo.list_by_parent; items is the set of
\* sequences of row ids the call can return
FolderService_list(T, parent_id) ==
    IF "list_by_parent" \notin FolderRepositoryMethods
    THEN [err |-> "AttributeError", items |-> {}]
    ELSE [err |-> "ok", items |-> list_by_parent_paginated(T, parent_id)]

\* GET /folders (list_folders): calls service.list_folders_by_parent_id; any
\* exception is answered 500
list_folders(T, parent_id) ==
    IF "list_folders_by_parent_id" \notin FolderServiceMethods
    THEN [status |-> 500, items |-> {}]
    ELSE [status |-> 200, items |-> list_by_parent_paginated(T, parent_id)]

\* ------------------------------------------------------ vocabulary of claims
FolderOps == {"create", "update", "delete"}
Done(p) == proc[p].pc = "done"
Succeeded(p) == Done(p) /\ proc[p].result = "ok"

\* every request so far was a folder request and succeeded
OnlySuccessfulFolderOps ==
    /\ hist \subseteq {"delete"}
    /\ \A p \in Procs : Done(p) => proc[p].result = "ok" /\ proc[p].op \in FolderOps

\* i is a proper descendant of a in table T (a chain of at most n parent links)
RECURSIVE IsDescendant(_, _, _, _)
IsDescendant(T, i, a, n) ==
    /\ n > 0
    /\ i \in DOMAIN T
    /\ T[i].parent_id # NoneId
    /\ \/ T[i].parent_id = a
       \/ IsDescendant(T, T[i].parent_id, a, n - 1)

Subtree(T, a) == {a} \cup {i \in DOMAIN T : IsDescendant(T, i, a, Cardinality(DOMAIN T))}

DirOf(row) == PathOf(row.storage_path)
RowsAt(T, path) == {i \in DOMAIN T : DirOf(T[i]) = path}
PathChanged(pr) == PathStr(pr.old_path) # PathStr(pr.new_path)

\* ------------------------------------------------------------------ claims

\* C1: in every state with no request in progress, reached by successful
\* folder create, update and delete requests only, every folder row has a
\* directory on disk at exactly its storage_path.
C1_NoDanglingRows ==
    (Quiescent /\ OnlySuccessfulFolderOps) =>
        \A i \in DOMAIN folders : DirOf(folders[i]) \in dirs

\* C2: in every state with no request in progress, reached by successful
\* folder create, update and delete requests only, every directory beneath
\* the storage root is the storage_path of exactly one folder row.
C2_NoOrphanDirs ==
    (Quiescent /\ OnlySuccessfulFolderOps) =>
        \A d \in dirs :
            (IsPrefix(STORAGE_BASE_PATH, d) /\ d # STORAGE_BASE_PATH) =>
                Cardinality(RowsAt(folders, d)) = 1

\* C3: with no request in progress, every folder row with a parent has
\* virtual_path = parent.virtual_path + name + "/", and every row with a
\* null parent has virtual_path = base_virtual + name + "/".
C3_VirtualPathOfParent ==
    Quiescent =>
        \A i \in DOMAIN folders :
            LET r == folders[i] IN
            IF r.parent_id = NoneId
            THEN r.virtual_path = base_virtual \o r.name \o <<SEP>>
            ELSE /\ r.parent_id \in DOMAIN folders
                 /\ r.virtual_path =
                        folders[r.parent_id].virtual_path \o r.name \o <<SEP>>

\* C4: in every state, also between the steps of a request, each folder row
\* has storage_path = translate(virtual_path).
C4_StorageIsTranslate ==
    \A i \in DOMAIN folders :
        folders[i].storage_path = PathStr(compute_storage_path(folders[i].virtual_path))

\* C4 witness: an update has committed a row with a changed virtual path
C4_Witness ==
    \E p \in Procs :
        /\ proc[p].op = "update" /\ proc[p].db_done
        /\ proc[p].folder_id \in DOMAIN folders
        /\ folders[proc[p].folder_id].virtual_path # proc[p].existing.virtual_path

\* C5: a create whose computed virtual path already has a catalog row fails
\* with AlreadyExists, and disk and catalog are as before the call.
C5_CreateExistingRejected ==
    \A p \in Procs :
        (/\ Done(p) /\ proc[p].op = "create"
         /\ by_virtual_path(proc[p].pre.folders, proc[p].virt) # {}) =>
            /\ proc[p].result = "FolderAlreadyExistsError"
            /\ folders = proc[p].pre.folders
            /\ files = proc[p].pre.files
            /\ dirs = proc[p].pre.dirs
            /\ dfiles = proc[p].pre.dfiles

\* C5 witness: a create ended on a virtual path that had a row
C5_Witness ==
    \E p \in Procs :
        /\ Done(p) /\ proc[p].op = "create"
        /\ by_virtual_path(proc[p].pre.folders, proc[p].virt) # {}

\* C6: after a successful delete of folder F no row remains for F, for a
\* descendant folder or for a file in any of them, nothing of the disk
\* subtree at F's storage path remains, and the children of F's former parent
\* do not include F.
C6_DeleteRemovesSubtree ==
    \A p \in Procs :
        (Succeeded(p) /\ proc[p].op = "delete") =>
            LET F == proc[p].existing
                sub == Subtree(proc[p].pre.folders, F.id)
            IN  /\ sub \cap DOMAIN folders = {}
                /\ \A f \in DOMAIN proc[p].pre.files :
                       proc[p].pre.files[f].folder_id \in sub => f \notin DOMAIN files
                /\ \A q \in dirs \cup DOMAIN dfiles : ~IsPrefix(DirOf(F), q)
                /\ F.id \notin list_by_parent(folders, F.parent_id)

\* C6 witness: a successful delete of a folder that had a descendant folder,
\* a file row in its subtree and a file on disk beneath it
C6_Witness ==
    \E p \in Procs :
        /\ Succeeded(p) /\ proc[p].op = "delete"
        /\ LET F == proc[p].existing
               sub == Subtree(proc[p].pre.folders, F.id)
           IN  /\ sub # {F.id}
               /\ \E f \in DOMAIN proc[p].pre.files :
                      proc[p].pre.files[f].folder_id \in sub
               /\ \E q \in DOMAIN proc[p].pre.dfiles : IsPrefix(DirOf(F), q)


\* C7: an update whose new physical path exists on disk without a catalog
\* row is answered 409 Conflict, and the folder's row, its directory subtree
\* at the original location and the stray directory are unchanged.
C7_RenameOntoStrayIsConflict ==
    \A p \in Procs :
        LET pr == proc[p] IN
        (/\ Done(p) /\ pr.op = "update" /\ PathChanged(pr)
         /\ pr.old_path \in pr.pre.dirs
         /\ pr.new_path \in pr.pre.dirs
         /\ RowsAt(pr.pre.folders, pr.new_path) = {}
         /\ by_virtual_path(pr.pre.folders, pr.virt) = {}) =>
            /\ StatusCode(pr.op, pr.result) = 409
            /\ pr.folder_id \in DOMAIN folders
            /\ folders[pr.folder_id] = pr.pre.folders[pr.folder_id]
            /\ Under(pr.old_path, dirs) = Under(pr.old_path, pr.pre.dirs)
            /\ Under(pr.new_path, dirs) = Under(pr.new_path, pr.pre.dirs)
            /\ \A q \in Under(pr.old_path, DOMAIN pr.pre.dfiles)
                        \cup Under(pr.new_path, DOMAIN pr.pre.dfiles) :
                   q \in DOMAIN dfiles /\ dfiles[q] = pr.pre.dfiles[q]

\* C8: in an update that changes the physical path the directory is moved
\* before the catalog is written; when the move fails the catalog is not
\* written and the row is as before the call.
C8_DiskBeforeCatalog ==
    \A p \in Procs :
        LET pr == proc[p] IN
        pr.op = "update" =>
            /\ (pr.db_done /\ PathChanged(pr)) => pr.disk_done
            /\ (Done(p) /\ pr.result \in {"FileNotFoundError", "OSError", "FileExistsError"}) =>
                   /\ ~pr.db_done
                   /\ pr.folder_id \in DOMAIN folders
                   /\ folders[pr.folder_id] = pr.pre.folders[pr.folder_id]

\* C8 witness: an update moved the directory and then wrote the catalog
C8_Witness ==
    \E p \in Procs :
        /\ proc[p].op = "update" /\ PathChanged(proc[p])
        /\ proc[p].disk_done /\ proc[p].db_done

\* C9: a successful update with parent_id explicitly null leaves the folder
\* at the root: virtual_path = base_virtual + name + "/", parent null, and
\* the directory on disk at the translated path.
C9_NullParentMovesToRoot ==
    \A p \in Procs :
        LET pr == proc[p] IN
        (/\ Succeeded(p) /\ pr.op = "update"
         /\ "parent_id" \in pr.data.fields_set /\ pr.data.parent_id = NoneId) =>
            /\ pr.out.parent_id = NoneId
            /\ pr.out.virtual_path = base_virtual \o pr.out.name \o <<SEP>>
            /\ pr.out.storage_path = PathStr(compute_storage_path(pr.out.virtual_path))
            /\ DirOf(pr.out) \in dirs

\* C10: no step changes the id or the creator_user_id of a folder row.
C10_IdAndCreatorImmutable ==
    [][\A i \in (DOMAIN folders) \cap (DOMAIN folders') :
          /\ folders'[i].id = folders[i].id
          /\ folders'[i].creator_user_id = folders[i].creator_user_id]_vars

\* C10 (amended): no step changes the id of a folder row, and a step changes
\* creator_user_id only as the catalog write of an update of that folder
\* whose payload supplies creator_user_id, to the supplied value.
C10_CreatorChangesOnlyWhenSupplied ==
    [][\A i \in (DOMAIN folders) \cap (DOMAIN folders') :
          /\ folders'[i].id = folders[i].id
          /\ folders'[i].creator_user_id # folders[i].creator_user_id =>
                \E p \in Procs :
                    /\ proc[p].op = "update" /\ proc[p].pc = "update_db"
                    /\ proc[p].folder_id = i
                    /\ "creator_user_id" \in proc[p].data.fields_set
                    /\ folders'[i].creator_user_id = proc[p].data.creator_user_id]_vars

\* C10 witness: an update that supplied a creator has replaced it
C10_Witness ==
    \E p \in Procs :
        /\ Succeeded(p) /\ proc[p].op = "update"
        /\ "creator_user_id" \in proc[p].data.fields_set
        /\ proc[p].out.creator_user_id # proc[p].existing.creator_user_id

\* every request so far succeeded and none was a folder delete: uploads, file
\* requests, folder creates, renames and moves only
OnlySuccessfulNoFolderDelete ==
    /\ hist \subseteq {"file"}
    /\ \A p \in Procs : Done(p) => proc[p].result = "ok" /\ proc[p].op # "delete"

\* the file at a row's storage_path, as the catalog records it
FileResolves(row) ==
    /\ PathOf(row.storage_path) \in DOMAIN dfiles
    /\ Len(dfiles[PathOf(row.storage_path)]) = row.size_bytes

\* C11: when no request is in progress, after uploads, file requests and
\* folder creates, renames and moves that all succeeded, the storage_path
\* of every file row is a regular file on disk whose length is the row's
\* size_bytes.
C11_FileRowsResolve ==
    (Quiescent /\ OnlySuccessfulNoFolderDelete)
        => \A i \in DOMAIN files : FileResolves(files[i])

\* the folder row an upload addressed, in the catalog as the request found it
UploadFolder(pr) ==
    pr.pre.folders[CHOOSE i \in DOMAIN pr.pre.folders :
                      pr.pre.folders[i].virtual_path = pr.upload.folder_path]

\* identifier followed by the extension of the display name
StoredName(pr) == IdStr(pr.file_id) \o suffix(pr.upload.file_name)

\* C12: a successful upload of display name N into folder D returns a row
\* whose id is the generated identifier (an id no row had), whose
\* virtual_path is D.virtual_path + id + extension(N), whose storage_path is
\* the translation of D.virtual_path joined with id + extension(N), and whose
\* size_bytes is the number of bytes written; the row is in the catalog and
\* the file on disk holds the uploaded bytes.
C12_UploadRow ==
    \A p \in SeqProcs :
        (Succeeded(p) /\ proc[p].op = "upload") =>
            LET pr == proc[p]
                D == UploadFolder(pr)
                row == pr.fout
            IN  /\ row.id = pr.file_id
                /\ row.id \notin (DOMAIN pr.pre.files) \cup (DOMAIN pr.pre.folders)
                /\ row.name = pr.upload.file_name
                /\ row.folder_id = D.id
                /\ row.virtual_path = D.virtual_path \o StoredName(pr)
                /\ PathOf(row.storage_path)
                     = compute_storage_path(D.virtual_path) \o <<StoredName(pr)>>
                /\ row.size_bytes = Len(pr.upload.stream)
                /\ row.id \in DOMAIN files /\ files[row.id] = row
                /\ PathOf(row.storage_path) \in DOMAIN dfiles
                /\ dfiles[PathOf(row.storage_path)] = pr.upload.stream

\* an upload with a display name succeeded
C12_Witness ==
    \E p \in SeqProcs :
        /\ Succeeded(p) /\ proc[p].op = "upload"
        /\ proc[p].upload.file_name = <<"f", ".", "t">>
        /\ proc[p].fout.size_bytes = 2

\* every request so far succeeded
OnlySuccessful ==
    /\ "failed" \notin hist
    /\ \A p \in Procs : Done(p) => proc[p].result = "ok"

\* C13: when no request is in progress and every request so far succeeded,
\* a download by the virtual_path of any file row that was uploaded and not
\* deleted returns the uploaded bytes with the row's MIME type and name.
C13_DownloadRoundTrip ==
    (Quiescent /\ OnlySuccessful) =>
        \A i \in (DOMAIN files) \cap (DOMAIN uploaded) :
            LET resp == download_file_by_path(files, dfiles, files[i].virtual_path)
            IN  /\ resp.status = 200
                /\ resp.body = uploaded[i]
                /\ resp.media_type = files[i].mime_type
                /\ resp.filename = files[i].name

\* C14: an upload that targets the root succeeds, writes the file directly
\* under the storage root and creates a row with a null folder reference and
\* a root-relative virtual_path.
C14_UploadToRoot ==
    \A p \in SeqProcs :
        (Done(p) /\ proc[p].op = "upload" /\ proc[p].upload.folder_path = <<SEP>>) =>
            LET row == proc[p].fout
            IN  /\ proc[p].result = "ok"
                /\ row.folder_id = NoneId
                /\ row.virtual_path = <<SEP>> \o StoredName(proc[p])
                /\ PathOf(row.storage_path) = STORAGE_BASE_PATH \o <<StoredName(proc[p])>>
                /\ PathOf(row.storage_path) \in DOMAIN dfiles

\* an upload that has generated its identifier
Uploading(p) == proc[p].op = "upload" /\ proc[p].file_id # NoneId

\* two uploads differ in identifier, virtual path and written physical path;
\* two file rows differ in virtual_path and storage_path
DistinctUploads ==
    /\ \A p, q \in Procs :
          (p # q /\ Uploading(p) /\ Uploading(q)) =>
              /\ proc[p].file_id # proc[q].file_id
              /\ proc[p].virt # proc[q].virt
              /\ (proc[p].disk_done /\ proc[q].disk_done)
                    => proc[p].new_path # proc[q].new_path
    /\ \A i, j \in DOMAIN files :
          i # j => /\ files[i].virtual_path # files[j].virtual_path
                   /\ files[i].storage_path # files[j].storage_path

\* the disk step of an upload writes a path where no file was
WritesFreshPath(p) ==
    (proc[p].pc = "upload_disk" /\ proc'[p].pc = "upload_db")
        => /\ proc'[p].new_path \notin DOMAIN dfiles
           /\ \A f \in DOMAIN dfiles : dfiles'[f] = dfiles[f]

\* C15: uploads never collide, whether they run one after the other or at
\* the same time, even with the same display name into the same folder: the
\* disk step of an upload writes a path that held no file and leaves every
\* other file's content as it was, two uploads have distinct identifiers,
\* virtual paths and physical paths, and any two file rows differ in
\* virtual_path and storage_path.
C15_NoUploadCollision ==
    [][(\A p \in Procs : WritesFreshPath(p)) /\ DistinctUploads']_vars

\* two uploads of the same display name into the same folder overlapped and
\* both succeeded
C15_Witness ==
    /\ Succeeded(1) /\ Succeeded(2)
    /\ proc[2].rid \in proc[1].overlapped \/ proc[1].rid \in proc[2].overlapped
    /\ proc[1].op = "upload" /\ proc[2].op = "upload"
    /\ proc[1].upload.file_name = <<"f", ".", "t">>
    /\ proc[1].upload.file_name = proc[2].upload.file_name
    /\ proc[1].upload.folder_path = proc[2].upload.folder_path
    /\ proc[2].fout.id \notin DOMAIN proc[1].pre.files
    /\ proc[1].fout.id \notin DOMAIN proc[2].pre.files

FileDeleteOps == {"file_delete_by_id", "file_delete_by_path"}

\* C16: after a successful file delete, by id or by virtual path, the row is
\* gone (a lookup by its id finds nothing), nothing exists on disk at its
\* former storage_path, and every other file row, folder row, disk file and
\* directory is as it was before the request.
C16_FileDeleteRemovesBoth ==
    \A p \in SeqProcs :
        (Succeeded(p) /\ proc[p].op \in FileDeleteOps) =>
            LET pr == proc[p]
                id == pr.db_item.id
                path == PathOf(pr.db_item.storage_path)
            IN  /\ id \in DOMAIN pr.pre.files /\ pr.pre.files[id] = pr.db_item
                /\ id \notin DOMAIN files
                /\ ~DiskExists(dirs, dfiles, path)
                /\ files = Restrict(pr.pre.files, (DOMAIN pr.pre.files) \ {id})
                /\ dfiles = [f \in (DOMAIN pr.pre.dfiles) \ {path} |-> pr.pre.dfiles[f]]
                /\ folders = pr.pre.folders
                /\ dirs = pr.pre.dirs

\* a file that was on disk was deleted by its virtual path while another
\* file row and its disk file remain
C16_Witness ==
    \E p \in SeqProcs :
        /\ Succeeded(p) /\ proc[p].op = "file_delete_by_path"
        /\ PathOf(proc[p].db_item.storage_path) \in DOMAIN proc[p].pre.dfiles
        /\ files # << >>
        /\ dfiles # << >>

\* C17: an update of a file's metadata that changes its physical path (a new
\* name for a file that is on disk) succeeds, after which the content exists
\* at the new physical path and no longer at the old one, and the row's
\* storage_path is the new path.
C17_FileUpdateMovesContent ==
    \A p \in SeqProcs :
        LET pr == proc[p]
            old_path == PathOf(pr.db_item.storage_path)
            new_path == compute_file_path(pr.db_item.virtual_path, pr.fdata.name)
        IN  (/\ Done(p) /\ pr.op = "file_update"
             /\ pr.file_id \in DOMAIN pr.pre.files
             /\ pr.fdata.name # NoneStr
             /\ old_path \in DOMAIN pr.pre.dfiles
             /\ old_path # new_path)
            => /\ pr.result = "ok"
               /\ new_path \in DOMAIN dfiles
               /\ dfiles[new_path] = pr.pre.dfiles[old_path]
               /\ old_path \notin DOMAIN dfiles
               /\ pr.file_id \in DOMAIN files
               /\ PathOf(files[pr.file_id].storage_path) = new_path

\* a create request that got past the catalog probe
PassedProbe(pr) ==
    /\ pr.op = "create"
    /\ \/ pr.pc \in {"create_disk", "create_db"}
       \/ pr.pc = "done" /\ pr.result \notin {"ValidationError", "NoResultFound",
                                                "FolderAlreadyExistsError"}

\* the requests in slots p and q overlapped: one began while the other was
\* in progress
Concurrent(p, q) ==
    /\ p # q
    /\ proc[p].rid \in proc[q].overlapped \/ proc[q].rid \in proc[p].overlapped

\* slots p and q hold overlapping create requests for the same virtual path
SameTarget(p, q) ==
    /\ Concurrent(p, q)
    /\ proc[p].op = "create" /\ proc[q].op = "create"
    /\ proc[p].virt # NoneStr /\ proc[p].virt = proc[q].virt

\* C18 as stated: of two overlapping creates for the same virtual path that
\* both passed the probe, the one that does not succeed is stopped by the
\* catalog's uniqueness constraint, the only backstop (IntegrityError at the
\* insert, after its directory was created).
C18_UniquenessOnlyBackstop ==
    \A p, q \in Procs :
        (/\ SameTarget(p, q) /\ PassedProbe(proc[p]) /\ PassedProbe(proc[q])
         /\ Succeeded(q) /\ Done(p))
        => proc[p].result = "IntegrityError" /\ proc[p].disk_done

\* C18: of two overlapping creates for the same virtual path, at most one
\* succeeds and at most one row with that path exists; the other one is
\* answered 409 and has created no directory (it fails at the probe, or at
\* the exclusive directory creation when both passed the probe).
C18_CreateRaceOneWinner ==
    \A p, q \in Procs :
        SameTarget(p, q) =>
            /\ ~(Succeeded(p) /\ Succeeded(q))
            /\ Cardinality(by_virtual_path(folders, proc[p].virt)) <= 1
            /\ (Succeeded(q) /\ Done(p)) =>
                  /\ StatusCode("create", proc[p].result) = 409
                  /\ ~proc[p].disk_done
                  /\ PassedProbe(proc[p]) => proc[p].result = "FileExistsError"

\* both creates passed the probe before either inserted; one succeeded, the
\* other failed creating the directory
C18_Witness ==
    \E p, q \in Procs :
        /\ SameTarget(p, q) /\ PassedProbe(proc[p]) /\ PassedProbe(proc[q])
        /\ Succeeded(q) /\ Done(p) /\ proc[p].result = "FileExistsError"
        /\ proc[p].pre.folders = proc[q].pre.folders

\* allow-lists a FileDiskService can be built with
AllowLists == {AllowList({<<".", "x">>}), AllowList({<<".", "T">>}), AllowList({})}

\* save_file of a service built with allow-list al, for the upload in slot p
SaveWith(p, al) ==
    LET base_virt == rstrip(proc[p].existing.virtual_path)
    IN  save_file(dirs, dfiles, FileDiskService_init(al),
                  IF base_virt # NoneStr THEN base_virt ELSE <<SEP>>,
                  StoredName(proc[p]), proc[p].upload.stream)

\* the extension of the upload in slot p is not in allow-list al
ExtensionRefused(p, al) ==
    LET init == FileDiskService_init(al)
    IN  init.given /\ lower(suffix(StoredName(proc[p]))) \notin init.exts

\* C19: validation errors have no side effects. A folder create or update
\* whose name contains the separator ends with a validation error, disk and
\* catalog being as they were before the request. An upload reaches its
\* disk step with disk and catalog as they were before the request, and
\* there, whatever allow-list the disk service was built with, an extension
\* that is not in the list is refused with ValueError, no directory and no
\* file being written.
C19_ValidationNoSideEffects ==
    \A p \in SeqProcs :
        /\ (Done(p) /\ proc[p].op \in {"create", "update"}
                    /\ ~validate_no_slash(proc[p].data.name))
              => /\ proc[p].result = "ValidationError"
                 /\ Snapshot = proc[p].pre
                 /\ ~proc[p].disk_done /\ ~proc[p].db_done
        /\ proc[p].pc = "upload_disk"
              => /\ Snapshot = proc[p].pre
                 /\ \A al \in AllowLists :
                       ExtensionRefused(p, al)
                           => /\ SaveWith(p, al).err = "ValueError"
                              /\ SaveWith(p, al).dirs = dirs
                              /\ SaveWith(p, al).dfiles = dfiles

\* a rename of an existing folder to a name with a separator was rejected
C19_Witness ==
    \E p \in SeqProcs :
        /\ Done(p) /\ proc[p].op = "update"
        /\ proc[p].result = "ValidationError"
        /\ proc[p].folder_id \in DOMAIN folders
        /\ ~validate_no_slash(proc[p].data.name)

\* the request in slot p names a folder row that the catalog did not have
\* when the request began
NamesMissingRow(pr) ==
    /\ validate_no_slash(pr.data.name)
    /\ \/ pr.op = "create" /\ pr.data.parent_id # NoneId
                            /\ pr.data.parent_id \notin DOMAIN pr.pre.folders
       \/ pr.op \in {"update", "delete"} /\ pr.folder_id \notin DOMAIN pr.pre.folders

\* C20: a folder create whose parent_id has no row, and a folder update or
\* delete of an id that has no row, fail with NoResultFound; disk and
\* catalog are as they were before the request.
C20_MissingRowIsNotFound ==
    \A p \in SeqProcs :
        (Done(p) /\ NamesMissingRow(proc[p])) =>
            /\ proc[p].result = "NoResultFound"
            /\ Snapshot = proc[p].pre
            /\ ~proc[p].disk_done /\ ~proc[p].db_done

\* a create under a parent that has no row was refused while the catalog
\* and the disk held other folders
C20_Witness ==
    \E p \in SeqProcs :
        /\ Done(p) /\ proc[p].op = "create" /\ NamesMissingRow(proc[p])
        /\ proc[p].result = "NoResultFound"
        /\ folders # << >> /\ dirs # {}

\* the create in slot p found, when it began, something on disk at the
\* physical path of its virtual path and no row with that virtual path
StrayAtTarget(pr) ==
    /\ pr.op = "create" /\ pr.virt # NoneStr
    /\ by_virtual_path(pr.pre.folders, pr.virt) = {}
    /\ DiskExists(pr.pre.dirs, pr.pre.dfiles, compute_storage_path(pr.virt))

\* C21: a folder create that finds a stray directory at its physical path,
\* with no row for its virtual path, fails with a conflict (FileExistsError,
\* 409) and inserts no row; the directory, its contents and everything else
\* on disk are unchanged.
C21_CreateOntoStrayIsConflict ==
    \A p \in SeqProcs :
        (Done(p) /\ StrayAtTarget(proc[p])) =>
            /\ proc[p].result = "FileExistsError"
            /\ StatusCode("create", proc[p].result) = 409
            /\ Snapshot = proc[p].pre
            /\ ~proc[p].db_done

\* a create was refused because of a stray directory
C21_Witness ==
    \E p \in SeqProcs :
        /\ Done(p) /\ StrayAtTarget(proc[p])
        /\ proc[p].result = "FileExistsError"
        /\ compute_storage_path(proc[p].virt) \in dirs

\* the delete in slot p loaded its folder row
Deleting(pr) == pr.op = "delete" /\ pr.existing # NoRow

\* C22: a folder delete removes the disk subtree before the catalog row.
\* Between the two steps the row is present and nothing exists at the
\* folder's storage_path; the catalog step is never taken without the disk
\* step; and at no point of a delete, finished or not, is the row gone while
\* its directory still exists.
C22_DeleteDiskBeforeCatalog ==
    \A p \in SeqProcs :
        Deleting(proc[p]) =>
            LET pr == proc[p]
                path == DirOf(pr.existing)
            IN  /\ pr.db_done => pr.disk_done
                /\ pr.pc = "delete_db"
                      => /\ pr.folder_id \in DOMAIN folders
                         /\ ~DiskExists(dirs, dfiles, path)
                /\ pr.folder_id \notin DOMAIN folders
                      => /\ ~DiskExists(dirs, dfiles, path)
                         /\ pr.disk_done

\* a delete stands between its two steps: the directory it found is removed,
\* the row is still there
C22_Witness ==
    \E p \in SeqProcs :
        /\ Deleting(proc[p]) /\ proc[p].pc = "delete_db"
        /\ DirOf(proc[p].existing) \in proc[p].pre.dirs
        /\ DirOf(proc[p].existing) \notin dirs
        /\ proc[p].folder_id \in DOMAIN folders

\* what a successful request in slot p must have brought about, per operation
EffectsInPlace(pr) ==
    IF pr.op = "create"
    THEN /\ pr.disk_done /\ pr.db_done
         /\ pr.out.id \in DOMAIN folders /\ folders[pr.out.id] = pr.out
         /\ DirOf(pr.out) \in dirs
    ELSE IF pr.op = "update"
    THEN /\ pr.db_done
         /\ pr.folder_id \in DOMAIN folders /\ folders[pr.folder_id] = pr.out
         /\ pr.out = UpdateValues(pr.existing, pr.data, PathStr(pr.new_path), pr.virt)
         /\ PathChanged(pr) => /\ pr.disk_done
                                /\ DirOf(pr.out) \in dirs
                                /\ ~DiskExists(dirs, dfiles, pr.old_path)
    ELSE IF pr.op = "delete"
    THEN /\ pr.disk_done /\ pr.db_done
         /\ pr.folder_id \notin DOMAIN folders
         /\ ~DiskExists(dirs, dfiles, DirOf(pr.existing))
    ELSE IF pr.op = "upload"
    THEN /\ pr.disk_done /\ pr.db_done
         /\ pr.fout.id \in DOMAIN files /\ files[pr.fout.id] = pr.fout
         /\ PathOf(pr.fout.storage_path) \in DOMAIN dfiles
         /\ dfiles[PathOf(pr.fout.storage_path)] = pr.upload.stream
    ELSE IF pr.op \in FileDeleteOps
    THEN /\ pr.disk_done /\ pr.db_done
         /\ pr.db_item.id \notin DOMAIN files
         /\ PathOf(pr.db_item.storage_path) \notin DOMAIN dfiles
    ELSE TRUE

\* the steps of the request in slot p that were needed have all been taken
StepsTaken(pr) ==
    /\ pr.db_done
    /\ pr.disk_done \/ (pr.op = "update" /\ ~PathChanged(pr))

\* C23: no partial success is reported as success. A folder create, update
\* or delete, a file upload or a file delete that returns success has taken
\* its disk step and its catalog step, their effects are in place, and the
\* view it returns is the committed row; a request of which a step failed
\* or was not reached ends with one error.
C23_NoPartialSuccess ==
    \A p \in SeqProcs :
        Done(p) =>
            /\ proc[p].result # "none"
            /\ proc[p].result = "ok" => EffectsInPlace(proc[p])
            /\ (proc[p].op \in FolderOps \cup FileDeleteOps \cup {"upload"}
                  /\ ~StepsTaken(proc[p])) => proc[p].result # "ok"

\* an update that moved the directory and then failed its catalog write
\* reported the error
C23_Witness ==
    \E p \in SeqProcs :
        /\ Done(p) /\ proc[p].op = "update"
        /\ proc[p].disk_done /\ ~proc[p].db_done
        /\ proc[p].result = "IntegrityError"

\* ---------------------------------------------------------------------- C24
\* the operations that have an HTTP endpoint, and the status each answers
EndpointOps == FolderOps \cup {"upload", "file_update", "file_delete_by_path"}
HttpStatus(pr) ==
    IF pr.op \in FolderOps THEN StatusCode(pr.op, pr.result)
    ELSE FileStatusCode(pr.op, pr.result)

\* the request named something the catalog does not hold
NotFoundCondition(pr) == pr.result = "NoResultFound"
\* the request was refused by input validation
ValidationFailure(pr) == pr.result \in {"ValidationError", "ValueError"}
\* the request ran into an occupied path or name: a probe hit, a uniqueness
\* violation, or a rename whose target is occupied on disk
CollisionCondition(pr) ==
    \/ pr.result \in {"FolderAlreadyExistsError", "IntegrityError", "FileExistsError"}
    \/ /\ pr.op = "update" /\ pr.result = "OSError"
       /\ DiskExists(pr.pre.dirs, pr.pre.dfiles, pr.new_path)

\* C24: at every folder and file endpoint a not-found condition is answered
\* with 404, a path or name collision with 409, an input-validation failure
\* with 400, and only other faults with 500
C24_StatusMapping ==
    \A p \in SeqProcs :
        (Done(p) /\ proc[p].op \in EndpointOps /\ proc[p].result # "ok") =>
            LET pr == proc[p]
            IN  HttpStatus(pr) =
                    IF NotFoundCondition(pr) THEN 404
                    ELSE IF CollisionCondition(pr) THEN 409
                    ELSE IF ValidationFailure(pr) THEN 400
                    ELSE 500

\* ---------------------------------------------------------------------- C25
\* slot p's catalog insert (of a folder Create or of an Upload) fails in
\* this step, after its disk step
InsertFails(p) ==
    /\ proc[p].pc \in {"create_db", "upload_db"}
    /\ proc[p].disk_done
    /\ proc'[p].pc = "done"

\* C25: when the catalog insert of a folder Create or of an Upload fails
\* after the disk step, nothing is rolled back: the disk is left as it was
\* (the created directory, the written file stay), no row is inserted, and
\* the caller receives an error
C25_NoRollbackOnInsertFailure ==
    [][\A p \in Procs :
          (InsertFails(p) /\ proc'[p].result # "ok") =>
              /\ dirs' = dirs /\ dfiles' = dfiles
              /\ folders' = folders /\ files' = files
              /\ ~proc'[p].db_done
              /\ proc'[p].result \in {"IntegrityError", "ValidationError", "FileNotFoundError"}
              /\ (proc[p].op = "create" /\ proc[p].new_path \in dirs) =>
                     proc[p].new_path \in dirs'
              /\ (proc[p].op = "upload" /\ proc[p].new_path \in DOMAIN dfiles) =>
                     proc[p].new_path \in DOMAIN dfiles']_vars

\* a Create whose insert failed: its directory is on disk and no row has it
OrphanDirectory(p) ==
    /\ Done(p) /\ proc[p].op = "create"
    /\ proc[p].disk_done /\ ~proc[p].db_done
    /\ proc[p].result = "IntegrityError"
    /\ proc[p].new_path \in dirs
    /\ RowsAt(folders, proc[p].new_path) = {}
\* an Upload whose insert failed: its file is on disk and no row has it
OrphanFile(p) ==
    /\ Done(p) /\ proc[p].op = "upload"
    /\ proc[p].disk_done /\ ~proc[p].db_done
    /\ proc[p].result = "IntegrityError"
    /\ proc[p].new_path \in DOMAIN dfiles
    /\ RowsAt(files, proc[p].new_path) = {}
C25_Witness == \E p \in Procs : OrphanDirectory(p)
C25_WitnessUpload == \E p \in Procs : OrphanFile(p)

\* ---------------------------------------------------------------------- C26
\* no two rows of table T share a virtual_path or a storage_path
PathsUnique(T) ==
    \A i, j \in DOMAIN T : i # j =>
        /\ T[i].virtual_path # T[j].virtual_path
        /\ T[i].storage_path # T[j].storage_path
\* the path starts and ends with the separator
Delimited(virtual_path) ==
    /\ Len(virtual_path) >= 1
    /\ virtual_path[1] = SEP
    /\ virtual_path[Len(virtual_path)] = SEP

\* C26: in every reachable state, under any interleaving of requests, no two
\* folder rows and no two file rows share a virtual_path or a storage_path,
\* and every folder virtual_path starts and ends with "/"
C26_PathsUniqueAndDelimited ==
    /\ PathsUnique(folders)
    /\ PathsUnique(files)
    /\ \A i \in DOMAIN folders : Delimited(folders[i].virtual_path)

\* an insert was refused because another row already has the path
C26_Witness ==
    \E p \in Procs :
        /\ Done(p) /\ proc[p].op = "create" /\ proc[p].result = "IntegrityError"
        /\ by_virtual_path(folders, proc[p].virt) # {}
        /\ Cardinality(DOMAIN folders) >= 1

\* ---------------------------------------------------------------------- C27
\* an Update of an existing folder
Updating(pr) == pr.op = "update" /\ pr.existing # NoRow
\* the payload supplies only is_published, or only the folder's current name
FlagOnly(pr) == pr.data.fields_set = {"is_published"} /\ pr.data.is_published # Null
SameName(pr) == pr.data.fields_set = {"name"} /\ pr.data.name = pr.existing.name
\* the columns a payload can supply stand as supplied, the others as before
FieldsApplied(row, pr) ==
    /\ row.name = IF "name" \in pr.data.fields_set THEN pr.data.name
                  ELSE pr.existing.name
    /\ row.parent_id = IF "parent_id" \in pr.data.fields_set THEN pr.data.parent_id
                       ELSE pr.existing.parent_id
    /\ row.creator_user_id = IF "creator_user_id" \in pr.data.fields_set
                             THEN pr.data.creator_user_id
                             ELSE pr.existing.creator_user_id
    /\ row.is_published = IF "is_published" \in pr.data.fields_set
                          THEN pr.data.is_published
                          ELSE pr.existing.is_published

\* C27: a folder Update applies only the supplied fields; an Update that
\* supplies only is_published, or only the folder's current name, succeeds
\* without a disk rename and leaves name, parent reference, virtual_path,
\* storage_path, creator and the disk tree unchanged
C27_PartialUpdateFrame ==
    \A p \in SeqProcs :
        (Done(p) /\ Updating(proc[p])) =>
            LET pr == proc[p]
                id == pr.folder_id
            IN  /\ pr.result = "ok" =>
                    /\ FieldsApplied(folders[id], pr)
                    /\ \A i \in DOMAIN pr.pre.folders : i # id =>
                           i \in DOMAIN folders /\ folders[i] = pr.pre.folders[i]
                    /\ files = pr.pre.files
                /\ (FlagOnly(pr) \/ SameName(pr)) =>
                    /\ pr.result = "ok"
                    /\ ~pr.disk_done
                    /\ dirs = pr.pre.dirs /\ dfiles = pr.pre.dfiles
                    /\ folders[id].name = pr.existing.name
                    /\ folders[id].parent_id = pr.existing.parent_id
                    /\ folders[id].virtual_path = pr.existing.virtual_path
                    /\ folders[id].storage_path = pr.existing.storage_path
                    /\ folders[id].creator_user_id = pr.existing.creator_user_id
                    /\ FlagOnly(pr) => folders[id].is_published = pr.data.is_published

\* an is_published-only Update of a folder that holds a subfolder on disk
C27_Witness ==
    \E p \in SeqProcs :
        /\ Done(p) /\ Updating(proc[p]) /\ FlagOnly(proc[p])
        /\ proc[p].result = "ok"
        /\ proc[p].existing.is_published # proc[p].data.is_published
        /\ \E q \in dirs : q # DirOf(proc[p].existing) /\ IsPrefix(DirOf(proc[p].existing), q)
C27_WitnessSameName ==
    \E p \in SeqProcs :
        /\ Done(p) /\ Updating(proc[p]) /\ SameName(proc[p])
        /\ DirOf(proc[p].existing) \in dirs

\* ---------------------------------------------------------------------- C28
\* a folder Delete of a row whose directory is not on disk
DeletesMissingDir(pr) ==
    /\ Deleting(pr)
    /\ ~DiskExists(pr.pre.dirs, pr.pre.dfiles, DirOf(pr.existing))
\* a file Delete of a row whose file is not on disk
DeletesMissingFile(pr) ==
    /\ pr.op \in FileDeleteOps /\ pr.db_item # NoFile
    /\ ~DiskExists(pr.pre.dirs, pr.pre.dfiles, DirOf(pr.db_item))

\* C28: a folder Delete or file Delete whose physical path is already missing
\* on disk does not fail at the disk step, removes the catalog row (a folder
\* row with its cascade) and reports success
C28_DeleteMissingPathSucceeds ==
    \A p \in SeqProcs :
        LET pr == proc[p]
        IN  /\ (Done(p) /\ DeletesMissingDir(pr)) =>
                LET gone == Subtree(pr.pre.folders, pr.folder_id)
                IN  /\ pr.result = "ok"
                    /\ pr.disk_done /\ pr.db_done
                    /\ DOMAIN folders = (DOMAIN pr.pre.folders) \ gone
                    /\ DOMAIN files = {f \in DOMAIN pr.pre.files :
                                          pr.pre.files[f].folder_id \notin gone}
                    /\ dirs = pr.pre.dirs /\ dfiles = pr.pre.dfiles
            /\ (Done(p) /\ DeletesMissingFile(pr)) =>
                    /\ pr.result = "ok"
                    /\ pr.disk_done /\ pr.db_done
                    /\ DOMAIN files = (DOMAIN pr.pre.files) \ {pr.db_item.id}
                    /\ folders = pr.pre.folders
                    /\ dirs = pr.pre.dirs /\ dfiles = pr.pre.dfiles

C28_Witness ==
    \E p \in SeqProcs : Done(p) /\ DeletesMissingDir(proc[p]) /\ proc[p].result = "ok"
C28_WitnessFile ==
    \E p \in SeqProcs : Done(p) /\ DeletesMissingFile(proc[p]) /\ proc[p].result = "ok"

\* ---------------------------------------------------------------------- C29
\* the parents a client can ask for: the root, a folder, an id of no row
ListInputs == {NoneId, MissingId} \cup DOMAIN folders
\* s lists exactly the children of parent_id, by name ascending
ChildrenByName(s, parent_id) ==
    /\ {s[i] : i \in DOMAIN s} = {i \in DOMAIN folders : folders[i].parent_id = parent_id}
    /\ Len(s) = Cardinality({s[i] : i \in DOMAIN s})
    /\ \A i, j \in DOMAIN s : i < j => NameLeq(folders[s[i]].name, folders[s[j]].name)

\* C29: listing the children of a parent (of the root when the parent is
\* null) returns exactly the folder rows whose parent reference is that
\* parent, ordered by name ascending, and listing under an id that has no
\* row returns the empty sequence instead of failing
C29_ListChildren ==
    \A parent_id \in ListInputs :
        LET r == FolderService_list(folders, parent_id)
            h == list_folders(folders, parent_id)
        IN  /\ r.err = "ok" /\ h.status = 200
            /\ r.items # {} /\ h.items # {}
            /\ \A s \in r.items \cup h.items : ChildrenByName(s, parent_id)
            /\ parent_id \notin DOMAIN folders \cup {NoneId} =>
                   r.items = {<< >>} /\ h.items = {<< >>}

\* the repository query alone selects and orders the rows as described
C29_QueryAlone ==
    \A parent_id \in ListInputs :
        /\ list_by_parent_paginated(folders, parent_id) # {}
        /\ \A s \in list_by_parent_paginated(folders, parent_id) :
               ChildrenByName(s, parent_id)
        /\ parent_id \notin DOMAIN folders \cup {NoneId} =>
               list_by_parent_paginated(folders, parent_id) = {<< >>}

\* ---------------------------------------------------------------------- C30
\* an Update that supplies a name and no parent
RenamesOnly(pr) ==
    /\ Updating(pr)
    /\ pr.data.name # NoneStr
    /\ "parent_id" \notin pr.data.fields_set
\* the virtual path without its trailing name segment
ParentPrefix(row) ==
    SubSeq(row.virtual_path, 1, Len(row.virtual_path) - Len(row.name) - 1)
\* the row sits directly under the base root
RootLevel(row) == Len(PathOf(row.virtual_path)) = Len(PathOf(base_virtual)) + 1

\* C30: a folder Update that changes only the name keeps the parent prefix
\* and replaces the trailing name segment: a row at P + old + "/" moves to
\* P + new + "/" (P the base virtual root for a root-level folder), and its
\* storage_path is the translation of that path
C30_RenameKeepsPrefix ==
    \A p \in SeqProcs :
        (Done(p) /\ RenamesOnly(proc[p])) =>
            LET pr == proc[p]
                P == ParentPrefix(pr.existing)
                target == P \o pr.data.name \o <<SEP>>
            IN  /\ pr.existing.virtual_path = P \o pr.existing.name \o <<SEP>>
                /\ pr.virt = target
                /\ RootLevel(pr.existing) => P = base_virtual
                /\ pr.new_path = compute_storage_path(target)
                /\ pr.result = "ok" =>
                       /\ folders[pr.folder_id].virtual_path = target
                       /\ folders[pr.folder_id].storage_path
                              = PathStr(compute_storage_path(target))
                       /\ folders[pr.folder_id].name = pr.data.name

\* a nested folder was given another name
C30_Witness ==
    \E p \in SeqProcs :
        /\ Done(p) /\ RenamesOnly(proc[p]) /\ proc[p].result = "ok"
        /\ proc[p].data.name # proc[p].existing.name
        /\ ~RootLevel(proc[p].existing)
        /\ proc[p].disk_done
\* a root-level folder was given another name
C30_WitnessRoot ==
    \E p \in SeqProcs :
        /\ Done(p) /\ RenamesOnly(proc[p]) /\ proc[p].result = "ok"
        /\ proc[p].data.name # proc[p].existing.name
        /\ RootLevel(proc[p].existing)

\* ---------------------------------------------------------------------- C31
\* an Update whose new virtual path is the virtual path of another row
CollidesWithRow(pr) ==
    /\ Updating(pr) /\ pr.virt # NoneStr
    /\ \E i \in DOMAIN pr.pre.folders :
           i # pr.folder_id /\ pr.pre.folders[i].virtual_path = pr.virt

\* C31: a folder Update whose new virtual_path is that of another folder row
\* fails with Conflict and has no side effect: both rows and both
\* directories with their contents are as before the call
C31_UpdateCollisionNoSideEffects ==
    \A p \in SeqProcs :
        (Done(p) /\ CollidesWithRow(proc[p])) =>
            /\ StatusCode("update", proc[p].result) = 409
            /\ Snapshot = proc[p].pre

\* ---------------------------------------------------------------------- C32
\* the non-empty "/"-separated segments of v, in order
Segments(v) == SelectSeq(split(v), NonEmpty)
\* the segments of v that name something: those other than "."
NamingSegments(v) == SelectSeq(Segments(v), NotCurDir)
\* slot p holds a translated virtual path
Translated(p, f) == Done(p) /\ proc[p].op = f
\* folder and file translation of the slot's virtual path agree on the
\* directory part
DirectoryPartAgrees(p) ==
    Translated(p, "compute_file_path") =>
        /\ PathParent(proc[p].new_path) = compute_storage_path(proc[p].virt)
        /\ proc[p].new_path[Len(proc[p].new_path)] = StoredFileName

\* C32: translate(v) is the storage root joined with the non-empty segments of
\* v in order; virtual paths that differ only in leading, trailing or
\* repeated separators have the same physical path, virtual paths with
\* different segment sequences have different physical paths, and folder
\* and file translation agree on the directory part
C32_TranslateBySegments ==
    \A p \in SeqProcs :
        /\ Translated(p, "compute_storage_path") =>
            /\ proc[p].new_path = STORAGE_BASE_PATH \o Segments(proc[p].virt)
            /\ \A w \in VirtualPathInputs :
                   (Segments(w) = Segments(proc[p].virt))
                       <=> (compute_storage_path(w) = proc[p].new_path)
        /\ DirectoryPartAgrees(p)

\* C32 as amended: the segments that count are those other than "."
C32_TranslateByNamingSegments ==
    \A p \in SeqProcs :
        /\ Translated(p, "compute_storage_path") =>
            /\ proc[p].new_path = STORAGE_BASE_PATH \o NamingSegments(proc[p].virt)
            /\ \A w \in VirtualPathInputs :
                   (NamingSegments(w) = NamingSegments(proc[p].virt))
                       <=> (compute_storage_path(w) = proc[p].new_path)
        /\ DirectoryPartAgrees(p)

\* a path with a repeated separator and a "." segment was translated, and a
\* path with other segments was too
C32_Witness ==
    \E p \in SeqProcs :
        /\ Translated(p, "compute_storage_path")
        /\ \E i \in 1..(Len(proc[p].virt) - 1) :
               proc[p].virt[i] = SEP /\ proc[p].virt[i + 1] = SEP
        /\ Segments(proc[p].virt) # NamingSegments(proc[p].virt)
        /\ NamingSegments(proc[p].virt) # << >>

\* ---------------------------------------------------------------------- C33
\* every request so far was a folder create or update and succeeded, and
\* none is in progress
OnlySuccessfulCreatesAndUpdates ==
    /\ hist = {}
    /\ \A p \in Procs :
           /\ ~InFlight(p)
           /\ Done(p) => proc[p].result = "ok" /\ proc[p].op \in {"create", "update"}
\* following parent references from folder i comes back to i
OwnAncestor(T, i) == IsDescendant(T, i, i, Cardinality(DOMAIN T))

\* C33: after any sequence of successful folder create, rename and move
\* requests the parent relation is a forest: no folder is its own ancestor
C33_ParentRelationIsForest ==
    OnlySuccessfulCreatesAndUpdates =>
        \A i \in DOMAIN folders : ~OwnAncestor(folders, i)

\* ---------------------------------------------------------------------- C34
\* slot p holds an Update and slot q a Delete of the same folder, the two
\* requests overlapped and both have finished
UpdateDeleteRace(p, q) ==
    /\ Concurrent(p, q) /\ Done(p) /\ Done(q)
    /\ Updating(proc[p]) /\ Deleting(proc[q])
    /\ proc[p].folder_id = proc[q].folder_id
    /\ PathChanged(proc[p])

\* C34: when an Update (rename or move) and a Delete of the same folder
\* overlap, then once both have finished and the Delete reported success
\* the folder has no catalog row and no directory on disk, neither at its
\* old nor at its new physical path
C34_UpdateDeleteRace ==
    \A p, q \in Procs :
        (UpdateDeleteRace(p, q) /\ Succeeded(q)) =>
            /\ proc[q].folder_id \notin DOMAIN folders
            /\ ~DiskExists(dirs, dfiles, proc[p].old_path)
            /\ ~DiskExists(dirs, dfiles, proc[p].new_path)

\* ---------------------------------------------------------------------- C35
\* slot p holds an Upload into folder D and slot q a Delete or an Update of
\* D, the two requests overlapped and both have finished
UploadFolderRace(p, q) ==
    /\ Concurrent(p, q) /\ Done(p) /\ Done(q)
    /\ proc[p].op = "upload" /\ proc[p].existing # NoRow
    /\ Deleting(proc[q]) \/ Updating(proc[q])
    /\ proc[q].folder_id = proc[p].existing.id
\* the uploaded file has a row, the row's storage_path is a file on disk, and
\* the directory it is in has a folder row
FileFullyStored(pr) ==
    /\ pr.file_id \in DOMAIN files
    /\ DirOf(files[pr.file_id]) \in DOMAIN dfiles
    /\ RowsAt(folders, PathParent(DirOf(files[pr.file_id]))) # {}
\* the uploaded file has no row and no bytes on disk
FileFullyAbsent(pr) ==
    /\ pr.file_id \notin DOMAIN files
    /\ \A path \in DOMAIN dfiles : path[Len(path)] # StoredName(pr)

\* C35: when an Upload into folder D overlaps a Delete or rename of D, then
\* once both have finished the file either has a catalog row whose
\* storage_path is a file on disk inside a directory that has a folder row,
\* or has neither a row nor bytes on disk; and the upload has not re-created
\* the directory of a deleted D
C35_UploadFolderRace ==
    \A p, q \in Procs :
        UploadFolderRace(p, q) =>
            /\ FileFullyStored(proc[p]) \/ FileFullyAbsent(proc[p])
            /\ (Deleting(proc[q]) /\ Succeeded(q)) =>
                   ~DiskExists(dirs, dfiles, DirOf(proc[p].existing))

\* ---------------------------------------------------------------------- C36
\* slots p and q hold two overlapping Deletes of one folder, or of one file,
\* that have both finished; p began first, found the row, and no other
\* request ran beside the two
SameDelete(p, q) ==
    \/ /\ proc[p].op = "delete" /\ proc[q].op = "delete"
       /\ proc[p].folder_id = proc[q].folder_id
       /\ proc[p].existing # NoRow
    \/ /\ proc[p].op \in FileDeleteOps /\ proc[q].op \in FileDeleteOps
       /\ proc[p].db_item # NoFile
       /\ proc[q].file_id = proc[p].file_id
          \/ (proc[q].op = "file_delete_by_path"
                /\ proc[q].file_path = proc[p].db_item.virtual_path)
DeleteRace(p, q) ==
    /\ Concurrent(p, q) /\ Done(p) /\ Done(q)
    /\ proc[p].overlapped = {} /\ proc[q].rid = proc[p].rid + 1
    /\ SameDelete(p, q)
\* the catalog and the disk of snapshot S without the target of slot p's
\* Delete: the folder with its subtree, or the file
WithoutTarget(S, pr) ==
    IF pr.op = "delete"
    THEN LET gone == Subtree(S.folders, pr.folder_id)
         IN  [folders |-> Restrict(S.folders, (DOMAIN S.folders) \ gone),
              files |-> Restrict(S.files, {f \in DOMAIN S.files :
                                              S.files[f].folder_id \notin gone}),
              dirs |-> {d \in S.dirs : ~IsPrefix(DirOf(pr.existing), d)},
              dfiles |-> Restrict(S.dfiles, {f \in DOMAIN S.dfiles :
                                                ~IsPrefix(DirOf(pr.existing), f)})]
    ELSE [folders |-> S.folders,
          files |-> Restrict(S.files, (DOMAIN S.files) \ {pr.db_item.id}),
          dirs |-> S.dirs,
          dfiles |-> Restrict(S.dfiles, (DOMAIN S.dfiles) \ {DirOf(pr.db_item)})]

\* C36: of two overlapping Deletes of the same folder (or the same file)
\* exactly one reports success and the other fails with NotFound; afterwards
\* neither the row nor the disk entry exists, and nothing else has been
\* removed
C36_DoubleDelete ==
    \A p, q \in Procs :
        DeleteRace(p, q) =>
            /\ \/ proc[p].result = "ok" /\ proc[q].result = "NoResultFound"
               \/ proc[q].result = "ok" /\ proc[p].result = "NoResultFound"
            /\ Snapshot = WithoutTarget(proc[p].pre, proc[p])

\* ---------------------------------------------------------------------- C37
\* slot q holds a finished Delete of a folder and slot p the Create that
\* was the next request, begun after the Delete finished, with the deleted
\* folder's name and parent; no other request ran beside them
CreateAfterDelete(p, q) ==
    /\ Done(q) /\ Deleting(proc[q]) /\ proc[q].result = "ok"
    /\ proc[p].op = "create" /\ Done(p)
    /\ proc[p].rid = proc[q].rid + 1
    /\ proc[p].overlapped = {} /\ proc[q].overlapped = {}
    /\ proc[p].data.name = proc[q].existing.name
    /\ proc[p].data.parent_id = proc[q].existing.parent_id
\* the directory at path exists and holds nothing
EmptyDirectory(path) ==
    /\ path \in dirs
    /\ \A e \in dirs \cup DOMAIN dfiles : e # path => ~IsPrefix(path, e)

\* C37: after a successful Delete of a folder a Create with the same name
\* under the same parent succeeds and yields a row with the virtual_path
\* and storage_path the deleted folder had, a new id, and an empty
\* directory on disk
C37_PathReusableAfterDelete ==
    \A p, q \in Procs :
        CreateAfterDelete(p, q) =>
            LET F == proc[q].existing
                N == proc[p].out
            IN  /\ proc[p].result = "ok"
                /\ N.virtual_path = F.virtual_path
                /\ N.storage_path = F.storage_path
                /\ N.id \notin DOMAIN proc[q].pre.folders
                /\ N.id \in DOMAIN folders /\ folders[N.id] = N
                /\ EmptyDirectory(DirOf(N))
====
